---------------------------- MODULE Spec2Model ----------------------------
(***************************************************************************)
(* A model of mrva-go-hepc: the local and GCS storage backends, their      *)
(* metadata cache, the CodeQL database discovery walk and the metadata     *)
(* extraction helpers.                                                     *)
(*                                                                         *)
(* Strings whose characters the code inspects (paths, file names,          *)
(* sourceLocationPrefix) are sequences of one-character strings; strings   *)
(* the code only copies or hashes (versions, SHAs, languages) are TLA+     *)
(* strings.  SHA-256 is a symbolic injective function.                     *)
(***************************************************************************)
EXTENDS Integers, Sequences, FiniteSets, TLC

VARIABLES
    \* ---- GetFile / FileExists on the local backend (SpecPath)
    basePath,      \* Backend.basePath (Config.BasePath)
    filename,      \* the requested name
    fsFiles,       \* the regular files of the host filesystem (cleaned paths)
    pathRes,       \* the result of the last GetFile / FileExists call
    \* ---- owner/repo inference (SpecOwner)
    ownerRes,      \* an extractor call: its inputs and what it returned
    \* ---- build identifiers (SpecCID)
    cidRes,        \* the generateBuildCID calls made so far
    \* ---- discovery (SpecDiscover)
    kind,          \* the backend's Type(): "local" or "gcs"
    tree,          \* the directory tree at the local backend's base path
    bucket,        \* the GCS bucket: its objects and where listing fails
    prefix,        \* gcs Config.Prefix
    discRes,       \* what ListMetadata returned
    \* ---- the metadata cache of the local backend (SpecCache)
    cachedMetadata, \* Backend.cachedMetadata: nil, or the cached catalog
    cacheTime,     \* Backend.cacheTime
    cacheTTL,      \* Backend.cacheTTL
    now,           \* the wall clock, in minutes
    pc,            \* where each goroutine stands in ListMetadata
    metadata,      \* each goroutine's local variable metadata
    ret,           \* what each goroutine's last ListMetadata returned
    calls,         \* the ListMetadata calls each goroutine has begun
    hist,          \* history of the calls, for the cache properties
    mu,            \* Backend.mu: the goroutines holding it for reading, for writing
    \* ---- the HTTP server (SpecServer)
    mock,          \* the configured answers of a scripted storage.Backend
    req,           \* the request routed by the mux: its pattern and path value
    resp,          \* the response written by the handler
    \* ---- the hepc-server process (SpecShutdown)
    proc           \* main, the signal, the http.Server and its handlers

pathVars  == <<basePath, filename, fsFiles, pathRes>>
ownerVars == <<ownerRes>>
cidVars   == <<cidRes>>
discVars  == <<kind, tree, bucket, prefix, discRes>>
cacheVars == <<cachedMetadata, cacheTime, cacheTTL, now, pc, metadata, ret, calls, hist, mu>>
httpVars  == <<mock, req, resp, proc>>
vars == <<pathVars, ownerVars, cidVars, discVars, cacheVars, httpVars>>

Nil == "nil"

-----------------------------------------------------------------------------
(* The values of the variables a specification does not use *)

NoPathRes == [op |-> "none", err |-> Nil, statPath |-> Nil, openPath |-> Nil,
              exists |-> Nil, contentType |-> Nil, size |-> Nil, reader |-> Nil]

NoOwnerRes == [fn |-> "none", slp |-> <<>>, zip |-> <<>>, local |-> Nil, gcs |-> Nil]

NoDiscRes == [done |-> FALSE, err |-> FALSE, isNil |-> TRUE, catalog |-> <<>>]

NoTree ==
    [kind |-> "missing", name |-> <<>>, size |-> 0, bytes |-> "",
     data |-> [state |-> "none", slp |-> <<>>, lang |-> <<>>,
               cm |-> [present |-> FALSE, sha |-> <<>>, cliVersion |-> <<>>,
                       creationTime |-> <<>>]],
     zip |-> [ok |-> FALSE, members |-> <<>>], readable |-> FALSE, children |-> <<>>]

NoBucket == [objects |-> <<>>, listErrAt |-> 0]

IdlePath ==
    /\ basePath = <<"/">>
    /\ filename = <<>>
    /\ fsFiles = {}
    /\ pathRes = NoPathRes

IdleOwner == ownerRes = NoOwnerRes

IdleCid == cidRes = <<>>

IdleDisc ==
    /\ kind = "none"
    /\ tree = NoTree
    /\ bucket = NoBucket
    /\ prefix = <<>>
    /\ discRes = NoDiscRes

NoMock ==
    [existsError |-> FALSE, metadataExists |-> FALSE, metadataError |-> FALSE,
     metadata |-> <<>>, fileError |-> Nil, fileContent |-> <<>>, fileSize |-> 0,
     fileType |-> ""]

NoReq == [pattern |-> "none", filepath |-> <<>>]

NoResp == [handler |-> "none", status |-> 0, contentType |-> Nil,
           contentLength |-> Nil, body |-> <<>>]

IdleHttp ==
    /\ mock = NoMock
    /\ req = NoReq
    /\ resp = NoResp
    /\ proc = Nil

IdleCache ==
    /\ cachedMetadata = Nil
    /\ cacheTime = Nil
    /\ cacheTTL = 0
    /\ now = 0
    /\ pc = Nil
    /\ metadata = Nil
    /\ ret = Nil
    /\ calls = Nil
    /\ hist = Nil
    /\ mu = Nil

-----------------------------------------------------------------------------
(* Bounds *)

MaxNameLen == 5      \* characters of a requested file name
MaxSlpLen == 4       \* characters of a sourceLocationPrefix
MaxLegacyLen == 3    \* tokens of a legacy sourceLocationPrefix
MaxStemLen == 3      \* tokens of an archive's file name before its extension
MaxCidLen == 1       \* characters of a generateBuildCID argument
MaxListErrAt == 3    \* the latest it.Next() call of a listing that may fail

-----------------------------------------------------------------------------
(* strings and path/filepath, as used by the code *)

Last(s) == s[Len(s)]
Front(s) == SubSeq(s, 1, Len(s) - 1)

\* strings.HasPrefix
HasPrefix(s, p) == Len(p) <= Len(s) /\ SubSeq(s, 1, Len(p)) = p

\* strings.HasSuffix
HasSuffix(s, x) == Len(x) <= Len(s) /\ SubSeq(s, Len(s) - Len(x) + 1, Len(s)) = x

\* strings.TrimSuffix
TrimSuffix(s, x) == IF HasSuffix(s, x) THEN SubSeq(s, 1, Len(s) - Len(x)) ELSE s

\* strings.TrimPrefix
TrimPrefix(s, p) == IF HasPrefix(s, p) THEN SubSeq(s, Len(p) + 1, Len(s)) ELSE s

\* strings.Split(s, sep) for a one-character separator: always at least one part
RECURSIVE Split(_, _)
Split(s, sep) ==
    IF \A i \in 1..Len(s) : s[i] # sep
    THEN <<s>>
    ELSE LET i == CHOOSE k \in 1..Len(s) :
                     s[k] = sep /\ \A j \in 1..(k - 1) : s[j] # sep
         IN  <<SubSeq(s, 1, i - 1)>> \o Split(SubSeq(s, i + 1, Len(s)), sep)

\* strings.Join(parts, sep)
RECURSIVE JoinWith(_, _)
JoinWith(parts, sep) ==
    IF parts = <<>> THEN <<>>
    ELSE IF Len(parts) = 1 THEN parts[1]
    ELSE parts[1] \o <<sep>> \o JoinWith(Tail(parts), sep)

Dot == <<".">>
DotDot == <<".", ".">>
Slash == <<"/">>

\* the element stack filepath.Clean builds while it reads the path
RECURSIVE CleanStack(_, _, _)
CleanStack(segs, out, rooted) ==
    IF segs = <<>> THEN out
    ELSE LET s == Head(segs)
             next ==
                IF s = <<>> \/ s = Dot THEN out
                ELSE IF s = DotDot
                     THEN IF out # <<>> /\ Last(out) # DotDot THEN Front(out)
                          ELSE IF rooted THEN out
                          ELSE Append(out, s)
                     ELSE Append(out, s)
         IN  CleanStack(Tail(segs), next, rooted)

\* filepath.IsAbs (Unix)
IsAbs(p) == HasPrefix(p, Slash)

\* filepath.Clean (Unix)
Clean(p) ==
    LET rooted == IsAbs(p)
        body == JoinWith(CleanStack(Split(p, "/"), <<>>, rooted), "/")
        r == IF rooted THEN Slash \o body ELSE body
    IN  IF r = <<>> THEN Dot ELSE r

\* filepath.Join(a, b): empty elements are ignored, the result is cleaned
Join(a, b) ==
    IF a = <<>> /\ b = <<>> THEN <<>>
    ELSE IF a = <<>> THEN Clean(b)
    ELSE IF b = <<>> THEN Clean(a)
    ELSE Clean(a \o Slash \o b)

\* filepath.Base (Unix)
Base(p) ==
    IF p = <<>> THEN Dot
    ELSE LET parts == SelectSeq(Split(p, "/"), LAMBDA x : x # <<>>)
         IN  IF parts = <<>> THEN Slash ELSE Last(parts)

\* the non-empty elements of a path
Segments(p) == SelectSeq(Split(p, "/"), LAMBDA x : x # <<>>)

-----------------------------------------------------------------------------
(* The host filesystem seen by os.Stat / os.Open: relative paths resolve   *)
(* against the working directory "/".                                      *)

Chars == {"/", ".", "a", "b"}

StrOver(cs, n) == UNION {[1..k -> cs] : k \in 0..n}

StrUpTo(n) == StrOver(Chars, n)

Abs(p) == IF IsAbs(p) THEN Clean(p) ELSE Clean(Slash \o p)

\* p is a directory: the root, or a proper ancestor of a file, or one of dirs
IsDirIn(p, files, dirs) ==
    \/ p = Slash
    \/ p \in dirs
    \/ \E f \in files : HasPrefix(f, p \o Slash)

\* os.Stat: "file", "dir", "missing" (os.IsNotExist), or "notdir" when an
\* element of the path above the last is a regular file (ENOTDIR, which
\* os.IsNotExist does not recognise)
Stat(p, files, dirs) ==
    LET q == Abs(p)
    IN  IF q \in files THEN "file"
        ELSE IF IsDirIn(q, files, dirs) THEN "dir"
        ELSE IF \E f \in files : HasPrefix(q, f \o Slash) THEN "notdir"
        ELSE "missing"

\* regular files the process may stat and may not open (mode 000)
Unreadable == { <<"/", "a", "/", "b", "/", "a">> }

\* filepath.Ext: the suffix of the last element from its last dot
Ext(p) ==
    LET b == IF p = <<>> \/ Last(p) = "/" THEN <<>> ELSE Last(Split(p, "/"))
        dots == {i \in 1..Len(b) : b[i] = "."}
    IN  IF dots = {} THEN <<>>
        ELSE LET i == CHOOSE k \in dots : \A j \in dots : j <= k
             IN  SubSeq(b, i, Len(b))

\* mime.TypeByExtension: "" for an extension the host's table does not know;
\* ".a" stands for the registered extensions
TypeByExtension(ext) == IF ext = <<".", "a">> THEN "application/x-a" ELSE ""

\* Backend.GetFile (local)
GetFileResult(base, name, files) ==
    LET joined == IF IsAbs(name) THEN name ELSE Join(base, name)
        fullPath == Clean(joined)
        st == Stat(fullPath, files, {Abs(base)})
        ct == TypeByExtension(Ext(fullPath))
    IN  IF ~HasPrefix(fullPath, Clean(base))
        THEN [NoPathRes EXCEPT !.op = "GetFile", !.err = "access denied"]
        ELSE IF st = "missing"
        THEN [NoPathRes EXCEPT !.op = "GetFile", !.err = "ErrNotFound",
                               !.statPath = fullPath]
        ELSE IF st = "notdir"
        THEN [NoPathRes EXCEPT !.op = "GetFile", !.err = "error accessing file",
                               !.statPath = fullPath]
        ELSE IF st = "dir"
        THEN [NoPathRes EXCEPT !.op = "GetFile", !.err = "cannot serve directory",
                               !.statPath = fullPath]
        ELSE IF Abs(fullPath) \in Unreadable
        THEN [NoPathRes EXCEPT !.op = "GetFile", !.err = "failed to open file",
                               !.statPath = fullPath, !.openPath = fullPath]
        ELSE [NoPathRes EXCEPT !.op = "GetFile", !.err = "none",
                               !.statPath = fullPath, !.openPath = fullPath,
                               !.contentType =
                                   IF ct = "" THEN "application/octet-stream" ELSE ct]

\* Backend.FileExists (local)
FileExistsResult(base, name, files) ==
    LET joined == IF IsAbs(name) THEN name ELSE Join(base, name)
        fullPath == Clean(joined)
        st == Stat(fullPath, files, {Abs(base)})
    IN  IF ~HasPrefix(fullPath, Clean(base))
        THEN [NoPathRes EXCEPT !.op = "FileExists", !.err = "access denied",
                               !.exists = FALSE]
        ELSE IF st = "notdir"
        THEN [NoPathRes EXCEPT !.op = "FileExists", !.err = "stat error",
                               !.statPath = fullPath, !.exists = FALSE]
        ELSE [NoPathRes EXCEPT !.op = "FileExists", !.err = "none",
                               !.statPath = fullPath, !.exists = (st = "file")]

BasePaths == { <<"/", "a">>, <<"/", "a", "/", "b", "/">>, <<"a">> }

FileSystems ==
    { {},
      { <<"/", "a", "/", "b">> },
      { <<"/", "a", "b">>, <<"/", "a", "/", "a">> },
      { <<"/", "a", "/", "b", "/", "a">>, <<"/", "a", "b", "/", "a">>, <<"/", "b">> } }

\* New verified that the base path is a directory
BaseIsDir(base, files) ==
    \A f \in files : f # Abs(base) /\ ~HasPrefix(Abs(base), f \o Slash)

InitPath ==
    /\ basePath \in BasePaths
    /\ filename \in StrUpTo(MaxNameLen)
    /\ fsFiles \in {fs \in FileSystems : BaseIsDir(basePath, fs)}
    /\ pathRes = NoPathRes
    /\ IdleOwner /\ IdleCid /\ IdleDisc /\ IdleCache /\ IdleHttp

GetFile ==
    /\ pathRes.op = "none"
    /\ pathRes' = GetFileResult(basePath, filename, fsFiles)
    /\ UNCHANGED <<basePath, filename, fsFiles, ownerVars, cidVars, httpVars, discVars, cacheVars>>

FileExists ==
    /\ pathRes.op = "none"
    /\ pathRes' = FileExistsResult(basePath, filename, fsFiles)
    /\ UNCHANGED <<basePath, filename, fsFiles, ownerVars, cidVars, httpVars, discVars, cacheVars>>

NextPath == GetFile \/ FileExists

SpecPath == InitPath /\ [][NextPath]_vars

\* FileExists' answer f and GetFile's answer g agree
Agree(f, g) ==
    /\ (f.err = "none" /\ f.exists) <=> g.err = "none"
    /\ (f.err = "none" /\ ~f.exists) <=> g.err \in {"ErrNotFound", "cannot serve directory"}
    /\ f.err = "access denied" <=> g.err = "access denied"

\* C29: on one filesystem and for one name, what FileExists returned agrees
\* with what GetFile returns and the other way round: (true, nil) exactly
\* with success, (false, nil) exactly with ErrNotFound or 'cannot serve
\* directory', 'access denied' exactly with 'access denied'.
C29_FileExistsAgreesWithGetFile ==
    /\ pathRes.op = "FileExists" =>
           Agree(pathRes, GetFileResult(basePath, filename, fsFiles))
    /\ pathRes.op = "GetFile" =>
           Agree(FileExistsResult(basePath, filename, fsFiles), pathRes)

\* the cleaned path p is the root directory or lies below it, by whole elements
InsideRoot(p, root) ==
    \/ p = root
    \/ root = Slash /\ IsAbs(p)
    \/ root = Dot /\ ~IsAbs(p) /\ ~HasPrefix(p, DotDot)
    \/ HasPrefix(p, root \o Slash)

\* C1: GetFile and FileExists either fail with 'access denied' or stat/open
\* only a cleaned path that is the root directory or a descendant of it by
\* whole path segments.
C1_PathStaysInsideRoot ==
    pathRes.op # "none" =>
        \/ pathRes.err = "access denied"
        \/ /\ pathRes.statPath # Nil
           /\ InsideRoot(pathRes.statPath, Clean(basePath))

\* the name has a ".." element and its cleaned full path is neither the root
\* nor below it
EscapesThroughDotDot(base, name) ==
    /\ \E i \in 1..Len(Split(name, "/")) : Split(name, "/")[i] = DotDot
    /\ ~InsideRoot(Clean(IF IsAbs(name) THEN name ELSE Join(base, name)), Clean(base))

\* C15: a GetFile or FileExists request whose name resolves outside the root
\* through ".." elements returns 'access denied' and touches no file.
C15_TraversalRejectedBeforeLookup ==
    (pathRes.op # "none" /\ EscapesThroughDotDot(basePath, filename)) =>
        /\ pathRes.err = "access denied"
        /\ pathRes.statPath = Nil

-----------------------------------------------------------------------------
(* Owner/repo inference.  A token such as "opt" or "unknown" is one element *)
(* of the sequence: a run of characters holding no separator.               *)

Unknown == <<"unknown">>

\* the owner/repo switch of extractOwnerRepo over the filtered parts
LastTwo(filteredParts) ==
    IF Len(filteredParts) >= 2
    THEN [owner |-> filteredParts[Len(filteredParts) - 1],
          repo  |-> filteredParts[Len(filteredParts)]]
    ELSE IF Len(filteredParts) = 1
    THEN [owner |-> Unknown, repo |-> filteredParts[1]]
    ELSE [owner |-> Unknown, repo |-> Unknown]

\* a slip: the parts are taken from the raw string
extractOwnerRepoNoClean(sourceLocationPrefix) ==
    IF sourceLocationPrefix = <<>>
    THEN [owner |-> Unknown, repo |-> Unknown]
    ELSE LastTwo(SelectSeq(Split(sourceLocationPrefix, "/"), LAMBDA x : x # <<>>))

\* codeql.extractOwnerRepo
extractOwnerRepo(sourceLocationPrefix) ==
    IF sourceLocationPrefix = <<>>
    THEN [owner |-> Unknown, repo |-> Unknown]
    ELSE LET parts == Split(Clean(sourceLocationPrefix), "/")
         IN  LastTwo(SelectSeq(parts, LAMBDA x : x # <<>>))

\* gcs.extractOwnerRepo
gcsExtractOwnerRepo(sourceLocationPrefix) ==
    IF sourceLocationPrefix = <<>>
    THEN [owner |-> Unknown, repo |-> Unknown]
    ELSE LET parts == Split(Clean(sourceLocationPrefix), "/")
             filteredParts == SelectSeq(parts, LAMBDA x : x # <<>>)
             n == Len(filteredParts)
         IN  CASE n >= 2 -> [owner |-> filteredParts[n - 1], repo |-> filteredParts[n]]
               [] n = 1  -> [owner |-> Unknown, repo |-> filteredParts[1]]
               [] OTHER  -> [owner |-> Unknown, repo |-> Unknown]

\* codeql.extractOwnerRepoFromFilename
extractOwnerRepoFromFilename(fname) ==
    LET name == TrimSuffix(TrimSuffix(TrimSuffix(fname, <<".zip">>),
                                      <<".tar", ".gz">>), <<".tgz">>)
        us == Split(name, "_")
        hs == Split(name, "-")
    IN  IF Len(us) >= 2 THEN [owner |-> us[1], repo |-> us[2]]
        ELSE IF Len(hs) >= 2 THEN [owner |-> hs[1], repo |-> hs[2]]
        ELSE [owner |-> Unknown, repo |-> Unknown]

Sentinels == { <<"opt">>, <<"src">>, Unknown }

\* a slip: the file name's answer replaces the inferred one unconditionally
dbInfoOwnerRepoOverwrite(sourceLocationPrefix, zipBase) ==
    LET inferred == extractOwnerRepo(sourceLocationPrefix)
    IN  IF inferred.owner \in Sentinels
        THEN extractOwnerRepoFromFilename(zipBase)
        ELSE inferred

\* extractMetadataFromDBInfo: owner and repo of a legacy-format archive
dbInfoOwnerRepo(sourceLocationPrefix, zipBase) ==
    LET inferred == extractOwnerRepo(sourceLocationPrefix)
        fromName == extractOwnerRepoFromFilename(zipBase)
    IN  IF inferred.owner \in Sentinels
        THEN [owner |-> IF fromName.owner # Unknown THEN fromName.owner
                        ELSE inferred.owner,
              repo  |-> IF fromName.repo # Unknown THEN fromName.repo
                        ELSE inferred.repo]
        ELSE inferred

LegacyChars == {"/", "a", "opt", "src", "unknown"}
StemChars == {"_", "-", "a", "unknown", ".tgz"}
ZipExts == {".zip", ".ZIP"}

\* file names DiscoverDatabases takes for archives: lower-cased, they end in .zip
ZipNames == {stem \o <<e>> : stem \in StrOver(StemChars, MaxStemLen), e \in ZipExts}

InitOwner ==
    /\ ownerRes = NoOwnerRes
    /\ IdlePath /\ IdleCid /\ IdleDisc /\ IdleCache /\ IdleHttp

ExtractOwnerRepo ==
    /\ ownerRes.fn = "none"
    /\ \E s \in StrUpTo(MaxSlpLen) :
           ownerRes' = [fn |-> "extractOwnerRepo", slp |-> s, zip |-> <<>>,
                        local |-> extractOwnerRepo(s),
                        gcs |-> gcsExtractOwnerRepo(s)]
    /\ UNCHANGED <<pathVars, cidVars, httpVars, discVars, cacheVars>>

ExtractMetadataFromDBInfo ==
    /\ ownerRes.fn = "none"
    /\ \E s \in StrOver(LegacyChars, MaxLegacyLen), z \in ZipNames :
           ownerRes' = [fn |-> "extractMetadataFromDBInfo", slp |-> s, zip |-> z,
                        local |-> dbInfoOwnerRepo(s, z), gcs |-> Nil]
    /\ UNCHANGED <<pathVars, cidVars, httpVars, discVars, cacheVars>>

NextOwner == ExtractOwnerRepo \/ ExtractMetadataFromDBInfo

SpecOwner == InitOwner /\ [][NextOwner]_vars

\* C6: with 2 or more non-empty segments of the cleaned path repo is the last
\* and owner the one before it; with 1 segment repo is that segment and owner
\* is "unknown"; with none (empty string or root only) both are "unknown";
\* the local and the remote extractor agree.
C6_OwnerRepoFromPrefix ==
    ownerRes.fn = "extractOwnerRepo" =>
        LET segs == IF ownerRes.slp = <<>> THEN <<>>
                    ELSE Segments(Clean(ownerRes.slp))
            n == Len(segs)
            r == ownerRes.local
        IN  /\ ownerRes.gcs = r
            /\ n >= 2 => r.repo = segs[n] /\ r.owner = segs[n - 1]
            /\ n = 1 => r.repo = segs[1] /\ r.owner = Unknown
            /\ n = 0 => r.repo = Unknown /\ r.owner = Unknown

\* a prefix of two segments
C6_Witness ==
    /\ ownerRes.fn = "extractOwnerRepo"
    /\ ownerRes.slp = <<"a", "/", "b">>
    /\ ownerRes.local = [owner |-> <<"a">>, repo |-> <<"b">>]

\* a prefix with "..": the raw string has more elements than the cleaned one
C6_WitnessDotDot ==
    /\ ownerRes.fn = "extractOwnerRepo"
    /\ ownerRes.slp = <<"/", ".", ".">>
    /\ ownerRes.local = [owner |-> Unknown, repo |-> Unknown]

\* the archive's file name without its extension, and its tokens
StemOf(zipBase) ==
    TrimSuffix(TrimSuffix(TrimSuffix(zipBase, <<".zip">>), <<".tar", ".gz">>), <<".tgz">>)
HasSep(zipBase) == \E i \in 1..Len(StemOf(zipBase)) : StemOf(zipBase)[i] \in {"_", "-"}
NameTokens(zipBase) ==
    IF \E i \in 1..Len(StemOf(zipBase)) : StemOf(zipBase)[i] = "_"
    THEN Split(StemOf(zipBase), "_")
    ELSE Split(StemOf(zipBase), "-")

\* C7 as stated: with a sentinel owner, owner and repo are the first two
\* tokens of the file name, and both "unknown" when it has no separator.
C7_AsStated ==
    (ownerRes.fn = "extractMetadataFromDBInfo"
        /\ extractOwnerRepo(ownerRes.slp).owner \in Sentinels) =>
        IF HasSep(ownerRes.zip)
        THEN /\ ownerRes.local.owner = NameTokens(ownerRes.zip)[1]
             /\ ownerRes.local.repo = NameTokens(ownerRes.zip)[2]
        ELSE /\ ownerRes.local.owner = Unknown
             /\ ownerRes.local.repo = Unknown

\* C7 (amended): with a sentinel owner, the first two tokens of the file name
\* (a trailing ".zip", then ".tar.gz", then ".tgz" removed; split on "_", or
\* on "-" when there is no "_")
\* replace owner and repo, except that a token equal to "unknown" leaves the
\* inferred value in place; without a separator owner and repo keep the
\* values inferred from sourceLocationPrefix.  With any other owner the
\* inferred values stand.
C7_LegacyFallback ==
    ownerRes.fn = "extractMetadataFromDBInfo" =>
        LET inferred == extractOwnerRepo(ownerRes.slp)
            toks == NameTokens(ownerRes.zip)
            r == ownerRes.local
        IN  IF inferred.owner \notin Sentinels THEN r = inferred
            ELSE IF ~HasSep(ownerRes.zip) THEN r = inferred
            ELSE /\ r.owner = IF toks[1] = Unknown THEN inferred.owner ELSE toks[1]
                 /\ r.repo = IF toks[2] = Unknown THEN inferred.repo ELSE toks[2]

\* /opt/src-like prefix, file name without a separator: the inferred pair stays
C7_Witness ==
    /\ ownerRes.fn = "extractMetadataFromDBInfo"
    /\ ownerRes.slp = <<"opt", "/", "src">>
    /\ ownerRes.zip = <<"a", ".zip">>
    /\ ownerRes.local = [owner |-> <<"opt">>, repo |-> <<"src">>]

-----------------------------------------------------------------------------
(* Hashing and build identifiers *)

\* hex.EncodeToString(sha256.Sum256(data)): 64 hex characters of a digest that
\* is determined by, and determines, the data
Sha256Hex(data) == [sha256 |-> data, len |-> 64]

\* h[:n] of a hex string
HexPrefix(h, n) == [h EXCEPT !.len = n]

Space == <<" ">>

\* local.generateBuildCID
generateBuildCID(cliVersion, creationTime, language, sourceSHA) ==
    LET s == cliVersion \o Space \o creationTime \o Space \o language
             \o Space \o sourceSHA
    IN  HexPrefix(Sha256Hex(s), 10)

\* gcs.generateBuildCID
gcsGenerateBuildCID(cliVersion, creationTime, language, sourceSHA) ==
    LET s == cliVersion \o Space \o creationTime \o Space \o language
             \o Space \o sourceSHA
    IN  HexPrefix(Sha256Hex(s), 10)

-----------------------------------------------------------------------------
(* Descriptors and the local directory tree.                               *)
(*                                                                         *)
(* A file is [kind, name, size, bytes, data, zip]; a directory is          *)
(* [kind, name, readable, children], its children in the order os.ReadDir  *)
(* returns them (sorted by name).  An unreadable directory (mode 000)      *)
(* fails os.ReadDir and os.Stat of anything in it.                         *)

YmlName == <<"codeql-database.yml">>
DBInfoName == <<".dbinfo">>

NoCM == [present |-> FALSE, sha |-> <<>>, cliVersion |-> <<>>, creationTime |-> <<>>]
CM1 == [present |-> TRUE, sha |-> <<"abc123">>, cliVersion |-> <<"2.15.0">>,
        creationTime |-> <<"2024-01-15">>]

SLP1 == <<"/", "home", "/", "acme", "/", "widgets">>
SLPLegacy == <<"/", "opt", "/", "src">>

\* what yaml.Unmarshal / xml.Unmarshal make of a descriptor's bytes:
\* state "ok" with the fields, "bad" (malformed), "unreadable" (read fails)
Parsed(slp, lang, cm) == [state |-> "ok", slp |-> slp, lang |-> lang, cm |-> cm]
BadData == [state |-> "bad", slp |-> <<>>, lang |-> <<>>, cm |-> NoCM]
UnreadableData == [state |-> "unreadable", slp |-> <<>>, lang |-> <<>>, cm |-> NoCM]
NoData == [state |-> "none", slp |-> <<>>, lang |-> <<>>, cm |-> NoCM]

NotZip == [ok |-> FALSE, members |-> <<>>]

File(name, size, bytes, data, zip) ==
    [kind |-> "file", name |-> name, size |-> size, bytes |-> bytes,
     data |-> data, zip |-> zip, readable |-> TRUE, children |-> <<>>]

Dir(name, readable, children) ==
    [kind |-> "dir", name |-> name, size |-> 0, bytes |-> "",
     data |-> NoData, zip |-> NotZip, readable |-> readable, children |-> children]

Member(name, data) == [name |-> name, data |-> data]

\* strings.ToLower on the names of the model (".ZIP" is the only upper case)
ToLower(name) == [i \in 1..Len(name) |-> IF name[i] = ".ZIP" THEN ".zip" ELSE name[i]]

HasChild(node, name) == \E i \in 1..Len(node.children) : node.children[i].name = name

ChildNamed(node, name) ==
    node.children[CHOOSE i \in 1..Len(node.children) : node.children[i].name = name]

\* the first non-empty <lang> of a "db-<lang>" among names, else "unknown"
LangFromNames(names) ==
    LET langs == [i \in 1..Len(names) |-> TrimPrefix(names[i], <<"db-">>)]
        hit == {i \in 1..Len(names) :
                    HasPrefix(names[i], <<"db-">>) /\ langs[i] # <<>>}
    IN  IF hit = {} THEN Unknown
        ELSE langs[CHOOSE i \in hit : \A j \in hit : i <= j]

RECURSIVE Flatten(_)
Flatten(seqs) == IF seqs = <<>> THEN <<>> ELSE Head(seqs) \o Flatten(Tail(seqs))

\* codeql.detectLanguageFromZip (the archive opened before opens again)
detectLanguageFromZip(file) ==
    IF ~file.zip.ok THEN Unknown
    ELSE LangFromNames(Flatten([i \in 1..Len(file.zip.members) |->
                                    Split(file.zip.members[i].name, "/")]))

\* codeql.detectLanguageFromDirectory
detectLanguageFromDirectory(dir) ==
    IF ~dir.readable THEN Unknown
    ELSE LET subdirs == SelectSeq(dir.children, LAMBDA c : c.kind = "dir")
         IN  LangFromNames([i \in 1..Len(subdirs) |-> subdirs[i].name])

\* codeql.hashFile
hashFile(file) == Sha256Hex(<<file.bytes>>)

NoDB == [Path |-> <<>>, Name |-> <<>>, IsArchived |-> FALSE, Language |-> <<>>,
         SourceLocationPrefix |-> <<>>, CreationMetadata |-> NoCM, FileSize |-> 0,
         HasContentHash |-> FALSE, ContentHash |-> Sha256Hex(<<>>),
         Owner |-> <<>>, Repo |-> <<>>]

\* what a discover function returns: err, or db = nil (found FALSE), or a db
DBErr == [err |-> TRUE, found |-> FALSE, db |-> NoDB]
DBNone == [err |-> FALSE, found |-> FALSE, db |-> NoDB]
DBFound(db) == [err |-> FALSE, found |-> TRUE, db |-> db]

\* codeql.extractMetadataFromYAMLFile
extractMetadataFromYAMLFile(member, zipPath, file) ==
    IF member.data.state # "ok" THEN DBErr
    ELSE LET or == extractOwnerRepo(member.data.slp)
         IN  DBFound([NoDB EXCEPT
                 !.Path = zipPath, !.Name = Base(zipPath), !.IsArchived = TRUE,
                 !.Language = IF member.data.lang = <<>>
                              THEN detectLanguageFromZip(file) ELSE member.data.lang,
                 !.SourceLocationPrefix = member.data.slp,
                 !.CreationMetadata = member.data.cm,
                 !.FileSize = file.size,
                 !.HasContentHash = TRUE, !.ContentHash = hashFile(file),
                 !.Owner = or.owner, !.Repo = or.repo])

\* a slip: elements of the legacy descriptor other than sourceLocationPrefix
\* are taken as creation metadata
extractMetadataFromDBInfoWithCM(member, zipPath, file) ==
    IF member.data.state # "ok" THEN DBErr
    ELSE LET or == dbInfoOwnerRepo(member.data.slp, Base(zipPath))
         IN  DBFound([NoDB EXCEPT
                 !.Path = zipPath, !.Name = Base(zipPath), !.IsArchived = TRUE,
                 !.Language = detectLanguageFromZip(file),
                 !.SourceLocationPrefix = member.data.slp,
                 !.CreationMetadata = member.data.cm,
                 !.FileSize = file.size,
                 !.HasContentHash = TRUE, !.ContentHash = hashFile(file),
                 !.Owner = or.owner, !.Repo = or.repo])

\* codeql.extractMetadataFromDBInfo
extractMetadataFromDBInfo(member, zipPath, file) ==
    IF member.data.state # "ok" THEN DBErr
    ELSE LET or == dbInfoOwnerRepo(member.data.slp, Base(zipPath))
         IN  DBFound([NoDB EXCEPT
                 !.Path = zipPath, !.Name = Base(zipPath), !.IsArchived = TRUE,
                 !.Language = detectLanguageFromZip(file),
                 !.SourceLocationPrefix = member.data.slp,
                 !.CreationMetadata = NoCM,
                 !.FileSize = file.size,
                 !.HasContentHash = TRUE, !.ContentHash = hashFile(file),
                 !.Owner = or.owner, !.Repo = or.repo])

\* codeql.discoverArchivedDatabase
discoverArchivedDatabase(zipPath, file) ==
    IF ~file.zip.ok THEN DBErr
    ELSE LET yml == SelectSeq(file.zip.members, LAMBDA m : HasSuffix(m.name, YmlName))
             dbi == SelectSeq(file.zip.members, LAMBDA m : HasSuffix(m.name, DBInfoName))
         IN  IF yml # <<>> THEN extractMetadataFromYAMLFile(yml[1], zipPath, file)
             ELSE IF dbi # <<>> THEN extractMetadataFromDBInfo(dbi[1], zipPath, file)
             ELSE DBNone

\* the size walk of discoverUnarchivedDatabase: an unreadable directory below
\* dbPath makes filepath.WalkDir return its error
RECURSIVE SizeWalk(_)
SizeWalk(node) ==
    IF node.kind = "file" THEN [err |-> FALSE, size |-> node.size]
    ELSE IF ~node.readable THEN [err |-> TRUE, size |-> 0]
    ELSE LET subs == [i \in 1..Len(node.children) |-> SizeWalk(node.children[i])]
             Sum[i \in 0..Len(subs)] == IF i = 0 THEN 0 ELSE Sum[i - 1] + subs[i].size
         IN  [err |-> \E i \in 1..Len(subs) : subs[i].err, size |-> Sum[Len(subs)]]

\* codeql.discoverUnarchivedDatabase
discoverUnarchivedDatabase(dbPath, dir) ==
    LET yml == ChildNamed(dir, YmlName)
        walked == SizeWalk(dir)
        or == extractOwnerRepo(yml.data.slp)
    IN  IF yml.kind # "file" \/ yml.data.state # "ok" THEN DBErr
        ELSE IF walked.err THEN DBErr
        ELSE DBFound([NoDB EXCEPT
                 !.Path = dbPath, !.Name = Base(dbPath), !.IsArchived = FALSE,
                 !.Language = IF yml.data.lang = <<>>
                              THEN detectLanguageFromDirectory(dir) ELSE yml.data.lang,
                 !.SourceLocationPrefix = yml.data.slp,
                 !.CreationMetadata = yml.data.cm,
                 !.FileSize = walked.size,
                 !.Owner = or.owner, !.Repo = or.repo])

\* the callback of DiscoverDatabases on one entry with err = nil:
\* the databases it appends and whether it returns filepath.SkipDir
Visit(path, node) ==
    IF node.kind = "file"
    THEN IF HasSuffix(ToLower(node.name), <<".zip">>)
         THEN LET r == discoverArchivedDatabase(path, node)
              IN  [dbs |-> IF r.found THEN <<r.db>> ELSE <<>>, skip |-> FALSE]
         ELSE [dbs |-> <<>>, skip |-> FALSE]
    ELSE IF node.readable /\ HasChild(node, YmlName)
         THEN LET r == discoverUnarchivedDatabase(path, node)
              IN  [dbs |-> IF r.found THEN <<r.db>> ELSE <<>>, skip |-> r.found]
         ELSE [dbs |-> <<>>, skip |-> FALSE]

\* a slip: filepath.SkipDir is not returned, the walk goes on below a
\* discovered database
WalkEntryNoSkip(v, node, sub) ==
    IF node.kind = "file" THEN [dbs |-> v.dbs, err |-> FALSE]
    ELSE IF ~node.readable THEN [dbs |-> v.dbs, err |-> TRUE]
    ELSE [dbs |-> v.dbs \o sub.dbs, err |-> sub.err]

\* filepath.WalkDir below the root with the callback of DiscoverDatabases: the
\* callback returns the error of a failed os.ReadDir, which ends the walk
\* one entry of the walk: v is what the callback did on it, sub the walk of
\* its children (taken only when the entry is a readable, unskipped directory)
WalkEntry(v, node, sub) ==
    IF node.kind = "file" \/ v.skip THEN [dbs |-> v.dbs, err |-> FALSE]
    ELSE IF ~node.readable THEN [dbs |-> v.dbs, err |-> TRUE]
    ELSE [dbs |-> v.dbs \o sub.dbs, err |-> sub.err]

\* the walk stops at the first error; rest is the walk of the later siblings
WalkThen(first, rest) ==
    IF first.err THEN first
    ELSE [dbs |-> first.dbs \o rest.dbs, err |-> rest.err]

RECURSIVE WalkDir(_, _, _)
WalkDir(path, children, i) ==
    IF i > Len(children) THEN [dbs |-> <<>>, err |-> FALSE]
    ELSE WalkThen(WalkEntry(Visit(Join(path, children[i].name), children[i]),
                            children[i],
                            WalkDir(Join(path, children[i].name),
                                    children[i].children, 1)),
                  WalkDir(path, children, i + 1))

\* a slip: the callback treats the root as it treats every other entry
DiscoverDatabasesVisitingRoot(base, root) ==
    IF root.kind = "missing" THEN [dbs |-> <<>>, err |-> TRUE]
    ELSE WalkEntry(Visit(base, root), root, WalkDir(base, root.children, 1))

\* codeql.DiscoverDatabases: the root itself is skipped by the callback
DiscoverDatabases(base, root) ==
    IF root.kind = "missing" THEN [dbs |-> <<>>, err |-> TRUE]
    ELSE IF root.kind = "file" THEN [dbs |-> <<>>, err |-> FALSE]
    ELSE IF ~root.readable THEN [dbs |-> <<>>, err |-> TRUE]
    ELSE WalkDir(base, root.children, 1)

-----------------------------------------------------------------------------
(* Catalog entries and ListMetadata's scan, local backend *)

EndpointURL == <<"http://hepc", "/">>

\* filepath.Rel(base, target) for a target at or below base
Rel(base, target) ==
    LET b == Clean(base)
        t == Clean(target)
        bb == IF b = Slash THEN Slash ELSE b \o Slash
    IN  IF t = b THEN Dot
        ELSE IF HasPrefix(t, bb) THEN SubSeq(t, Len(bb) + 1, Len(t))
        ELSE Base(t)

ToolName(language) ==
    IF language # <<>> /\ language # Unknown THEN <<"codeql-">> \o language
    ELSE <<"codeql">>

ResultURL(endpoint, relPath) == TrimSuffix(endpoint, Slash) \o <<"/", "db", "/">> \o relPath

\* a slip: the hash of an unarchived database covers its payload
contentHashOfPayload(db) ==
    IF db.HasContentHash THEN db.ContentHash
    ELSE Sha256Hex(db.Path \o (IF db.FileSize > 2 THEN <<"+">> ELSE <<>>))

\* convertToMetadata: the content hash, from the path for unarchived databases
contentHashOf(db) ==
    IF db.HasContentHash THEN db.ContentHash ELSE Sha256Hex(db.Path)

\* a slip: the build identifier is always cut from the content hash
buildCIDOfHashOnly(db, contentHash) == HexPrefix(contentHash, 10)

\* convertToMetadata: the build CID from the available metadata
buildCIDOf(db, contentHash) ==
    IF db.CreationMetadata.present
    THEN generateBuildCID(db.CreationMetadata.cliVersion,
                          db.CreationMetadata.creationTime,
                          db.Language, db.CreationMetadata.sha)
    ELSE HexPrefix(contentHash, 10)

\* Backend.convertToMetadata (local)
convertToMetadata(base, endpoint, db) ==
    LET contentHash == contentHashOf(db)
        cm == db.CreationMetadata
    IN  [content_hash |-> contentHash,
         build_cid |-> buildCIDOf(db, contentHash),
         git_branch |-> <<"HEAD">>, git_commit_id |-> cm.sha,
         git_owner |-> db.Owner, git_repo |-> db.Repo,
         ingestion_datetime_utc |-> cm.creationTime,
         primary_language |-> db.Language,
         result_url |-> ResultURL(endpoint, Rel(base, db.Path)),
         tool_name |-> ToolName(db.Language),
         tool_version |-> cm.cliVersion,
         projname |-> db.Owner \o Slash \o db.Repo,
         db_file_size |-> db.FileSize]

\* what ListMetadata returns: (nil, err), or a catalog that is nil when empty
ScanFailed == [done |-> TRUE, err |-> TRUE, isNil |-> TRUE, catalog |-> <<>>]
Scanned(catalog) ==
    [done |-> TRUE, err |-> FALSE, isNil |-> (catalog = <<>>), catalog |-> catalog]

\* a slip: the databases found before the walk failed are returned
localScanKeepingPartial(base, endpoint, root) ==
    LET r == DiscoverDatabases(base, root)
    IN  Scanned([i \in 1..Len(r.dbs) |-> convertToMetadata(base, endpoint, r.dbs[i])])

\* Backend.ListMetadata (local), the cache-miss path up to the cache update
localScan(base, endpoint, root) ==
    LET r == DiscoverDatabases(base, root)
    IN  IF r.err THEN ScanFailed
        ELSE Scanned([i \in 1..Len(r.dbs) |-> convertToMetadata(base, endpoint, r.dbs[i])])

-----------------------------------------------------------------------------
(* The GCS backend.  The bucket lists its objects in name order; listErrAt *)
(* = k > 0 makes the k-th it.Next() of a listing fail.                     *)

Object(name, data) == [name |-> name, data |-> data]

\* gcs.New: the prefix gets its trailing "/"
gcsNewPrefix(cfgPrefix) ==
    IF cfgPrefix # <<>> /\ ~HasSuffix(cfgPrefix, Slash) THEN cfgPrefix \o Slash
    ELSE cfgPrefix

\* a slip: the query carries no prefix
ListingWholeBucket(bkt, p) == bkt.objects

\* bkt.Objects(ctx, &storage.Query{Prefix: p})
Listing(bkt, p) == SelectSeq(bkt.objects, LAMBDA o : HasPrefix(o.name, p))

\* Backend.detectLanguageFromGCS
detectLanguageFromGCS(bkt, dbPath) ==
    LET l == Listing(bkt, dbPath \o <<"/", "db-">>)
        parts == IF l = <<>> THEN <<>> ELSE Split(l[1].name, "/")
        hits == SelectSeq(parts, LAMBDA x : HasPrefix(x, <<"db-">>))
    IN  IF l = <<>> \/ hits = <<>> THEN Unknown
        ELSE TrimPrefix(hits[1], <<"db-">>)

\* Backend.discoverUnarchivedDatabase (gcs): err (found FALSE) or an entry
gcsDiscoverUnarchivedDatabase(bkt, pfx, endpoint, dbPath) ==
    LET ymlName == dbPath \o Slash \o YmlName
        objs == SelectSeq(bkt.objects, LAMBDA o : o.name = ymlName)
        d == IF objs = <<>> THEN UnreadableData ELSE objs[1].data
        language == IF d.lang = <<>> THEN detectLanguageFromGCS(bkt, dbPath) ELSE d.lang
        contentHash == Sha256Hex(dbPath)
        or == gcsExtractOwnerRepo(d.slp)
        buildCID == IF d.cm.present
                    THEN gcsGenerateBuildCID(d.cm.cliVersion, d.cm.creationTime,
                                             language, d.cm.sha)
                    ELSE HexPrefix(contentHash, 10)
    IN  [found |-> d.state = "ok",
         m |-> [content_hash |-> contentHash,
                build_cid |-> buildCID,
                git_branch |-> <<"HEAD">>, git_commit_id |-> d.cm.sha,
                git_owner |-> or.owner, git_repo |-> or.repo,
                ingestion_datetime_utc |-> d.cm.creationTime,
                primary_language |-> language,
                result_url |-> ResultURL(endpoint, TrimPrefix(dbPath, pfx)),
                tool_name |-> ToolName(language),
                tool_version |-> d.cm.cliVersion,
                projname |-> or.owner \o Slash \o or.repo,
                db_file_size |-> 0]]

\* a slip: an object whose name ends in .zip is reported as a container too
RECURSIVE gcsDiscoverFromWithArchives(_, _, _, _, _, _)
gcsDiscoverFromWithArchives(bkt, pfx, endpoint, objs, i, discovered) ==
    IF i = bkt.listErrAt THEN [metadata |-> <<>>, err |-> TRUE]
    ELSE IF i > Len(objs) THEN [metadata |-> <<>>, err |-> FALSE]
    ELSE LET objectName == objs[i].name
             isYml == HasSuffix(objectName, Slash \o YmlName)
             dbPath == TrimSuffix(objectName, Slash \o YmlName)
             fresh == isYml /\ dbPath \notin discovered
             r == gcsDiscoverUnarchivedDatabase(bkt, pfx, endpoint, dbPath)
             rest == gcsDiscoverFromWithArchives(bkt, pfx, endpoint, objs, i + 1,
                                                 IF fresh THEN discovered \cup {dbPath}
                                                 ELSE discovered)
         IN  IF rest.err THEN rest
             ELSE [metadata |-> (IF (fresh /\ r.found) \/ HasSuffix(objectName, <<".zip">>)
                                 THEN <<r.m>> ELSE <<>>)
                                \o rest.metadata,
                   err |-> FALSE]

\* the loop of Backend.discoverDatabases (gcs) from the i-th listed object on
RECURSIVE gcsDiscoverFrom(_, _, _, _, _, _)
gcsDiscoverFrom(bkt, pfx, endpoint, objs, i, discovered) ==
    IF i = bkt.listErrAt THEN [metadata |-> <<>>, err |-> TRUE]
    ELSE IF i > Len(objs) THEN [metadata |-> <<>>, err |-> FALSE]
    ELSE LET objectName == objs[i].name
             isYml == HasSuffix(objectName, Slash \o YmlName)
             dbPath == TrimSuffix(objectName, Slash \o YmlName)
             fresh == isYml /\ dbPath \notin discovered
             r == gcsDiscoverUnarchivedDatabase(bkt, pfx, endpoint, dbPath)
             rest == gcsDiscoverFrom(bkt, pfx, endpoint, objs, i + 1,
                                     IF fresh THEN discovered \cup {dbPath}
                                     ELSE discovered)
         IN  IF rest.err THEN rest
             ELSE [metadata |-> (IF fresh /\ r.found THEN <<r.m>> ELSE <<>>)
                                \o rest.metadata,
                   err |-> FALSE]

\* Backend.discoverDatabases (gcs)
gcsDiscoverDatabases(bkt, pfx, endpoint) ==
    gcsDiscoverFrom(bkt, pfx, endpoint, Listing(bkt, pfx), 1, {})

\* Backend.ListMetadata (gcs), the cache-miss path up to the cache update
gcsScan(bkt, pfx, endpoint) ==
    LET r == gcsDiscoverDatabases(bkt, pfx, endpoint)
    IN  IF r.err THEN ScanFailed ELSE Scanned(r.metadata)

-----------------------------------------------------------------------------
(* The namespaces of the discovery specification *)

BaseDir == <<"/", "data">>

Go == <<"go">>

Descriptors == {Parsed(SLP1, l, c) : l \in {<<>>, Go}, c \in {NoCM, CM1}}

YmlFile(d) == File(YmlName, 1, "yml", d, NotZip)

\* zero or one child, as a sequence
Opt(nodes) == {<<>>} \cup {<<n>> : n \in nodes}

\* db-go: with a payload of 1 or 2 bytes, or unreadable
DbDirs == {Dir(<<"db-", "go">>, TRUE, <<File(<<"x">>, n, "payload", NoData, NotZip)>>) :
               n \in {1, 2}}
          \cup {Dir(<<"db-", "go">>, FALSE, <<>>)}

Zip(members) == [ok |-> TRUE, members |-> members]
MYml(d) == Member(<<"db", "/", "codeql-database.yml">>, d)
MDbInfo(d) == Member(<<"db", "/", ".dbinfo">>, d)
MLang == Member(<<"db", "/", "db-", "cpp", "/", "x">>, NoData)

\* directories one level below a top-level directory
NestedDirs ==
    { Dir(<<"n1">>, TRUE, <<>>),
      Dir(<<"n1">>, FALSE, <<>>),
      Dir(<<"n1">>, TRUE, <<YmlFile(Parsed(SLP1, Go, NoCM))>>) }

NestedZips == { File(<<"n2", ".zip">>, 3, "B1", NoData, Zip(<<MYml(Parsed(SLP1, Go, CM1))>>)) }

\* the first top-level directory
TopDirs ==
    { Dir(<<"d1">>, TRUE, y \o g \o n \o z) :
          y \in Opt({YmlFile(d) : d \in Descriptors \cup {BadData, UnreadableData}}),
          g \in Opt(DbDirs), n \in Opt(NestedDirs), z \in Opt(NestedZips) }
    \cup { Dir(<<"d1">>, FALSE, <<>>) }

\* the second one: a valid unarchived database
SecondDirs ==
    { Dir(<<"d2">>, TRUE, <<YmlFile(Parsed(SLP1, Go, CM1)),
                           Dir(<<"db-", "go">>, TRUE, <<>>)>>) }

\* top-level archives
TopZips ==
    { File(<<"z1", ".zip">>, 3, "B1", NoData, z) :
          z \in { Zip(<<MYml(Parsed(SLP1, Go, CM1)), MLang>>),
                  Zip(<<MYml(Parsed(SLP1, <<>>, NoCM)), MLang>>),
                  Zip(<<MYml(BadData)>>),
                  Zip(<<Member(<<"readme">>, NoData)>>),
                  NotZip } }
    \cup { File(<<"own", "_", "rep", ".zip">>, 3, "B2", NoData, z) :
          z \in { Zip(<<MDbInfo(Parsed(SLPLegacy, <<>>, NoCM)), MLang>>),
                  Zip(<<MDbInfo(Parsed(SLPLegacy, <<>>, CM1)), MLang>>),
                  Zip(<<MDbInfo(BadData)>>) } }

Trees ==
    { Dir(BaseDir, r, y \o a \o b \o z) :
          r \in BOOLEAN, y \in Opt({YmlFile(Parsed(SLP1, Go, CM1))}),
          a \in Opt(TopDirs), b \in Opt(SecondDirs), z \in Opt(TopZips) }
    \cup { NoTree }

\* the bucket's objects, in name order
P == <<"p">>
ObjYml(dir, d) == Object(dir \o Slash \o YmlName, d)

Buckets ==
    { [objects |-> z \o y \o e \o g \o b \o q, listErrAt |-> k] :
          z \in Opt({Object(<<"p", "/", "a", ".zip">>, NoData)}),
          y \in Opt({ObjYml(<<"p", "/", "db1">>, d) :
                         d \in Descriptors \cup {BadData, UnreadableData}}),
          e \in Opt({Object(<<"p", "/", "db1", "/", "db-", "/", "x">>, NoData)}),
          g \in Opt({Object(<<"p", "/", "db1", "/", "db-", "go", "/", "x">>, NoData)}),
          b \in Opt({ObjYml(<<"p", "/", "db2">>, Parsed(SLP1, Go, CM1))}),
          q \in Opt({ObjYml(<<"q", "/", "db3">>, Parsed(SLP1, Go, NoCM))}),
          k \in 0..MaxListErrAt }

CfgPrefixes == { <<>>, <<"p">>, <<"p", "/">> }

-----------------------------------------------------------------------------
(* SpecDiscover: one ListMetadata call on a freshly built backend *)

InitDiscover ==
    /\ \/ kind = "local" /\ tree \in Trees /\ bucket = NoBucket /\ prefix = <<>>
       \/ /\ kind = "gcs" /\ tree = NoTree /\ bucket \in Buckets
          /\ prefix \in {gcsNewPrefix(c) : c \in CfgPrefixes}
    /\ discRes = NoDiscRes
    /\ IdlePath /\ IdleOwner /\ IdleCid /\ IdleCache /\ IdleHttp

ListMetadataLocal ==
    /\ kind = "local" /\ ~discRes.done
    /\ discRes' = localScan(BaseDir, EndpointURL, tree)
    /\ UNCHANGED <<kind, tree, bucket, prefix, pathVars, ownerVars, cidVars, httpVars, cacheVars>>

ListMetadataGCS ==
    /\ kind = "gcs" /\ ~discRes.done
    /\ discRes' = gcsScan(bucket, prefix, EndpointURL)
    /\ UNCHANGED <<kind, tree, bucket, prefix, pathVars, ownerVars, cidVars, httpVars, cacheVars>>

NextDiscover == ListMetadataLocal \/ ListMetadataGCS

SpecDiscover == InitDiscover /\ [][NextDiscover]_vars

\* the node of the tree at a relative path
RECURSIVE NodeAt(_, _)
NodeAt(node, names) ==
    IF names = <<>> THEN node
    ELSE IF node.kind # "dir" \/ ~HasChild(node, Head(names)) THEN NoTree
    ELSE NodeAt(ChildNamed(node, Head(names)), Tail(names))

\* the relative location in an entry's result_url
RelOf(entry) == TrimPrefix(entry.result_url, ResultURL(EndpointURL, <<>>))

\* the container of a catalog entry
LocalNodeOf(entry) == NodeAt(tree, Split(RelOf(entry), "/"))

Entries == {discRes.catalog[i] : i \in 1..Len(discRes.catalog)}

\* the descriptor an entry's container carries
LocalDescriptorOf(node) ==
    IF node.kind = "dir" THEN ChildNamed(node, YmlName).data
    ELSE LET yml == SelectSeq(node.zip.members, LAMBDA m : HasSuffix(m.name, YmlName))
             dbi == SelectSeq(node.zip.members, LAMBDA m : HasSuffix(m.name, DBInfoName))
         IN  IF yml # <<>> THEN yml[1].data
             ELSE [dbi[1].data EXCEPT !.cm = NoCM]

GcsDescriptorOf(entry) ==
    LET name == prefix \o RelOf(entry) \o Slash \o YmlName
    IN  (CHOOSE o \in {bucket.objects[i] : i \in 1..Len(bucket.objects)} :
             o.name = name).data

DescriptorOf(entry) ==
    IF kind = "local" THEN LocalDescriptorOf(LocalNodeOf(entry))
    ELSE GcsDescriptorOf(entry)

\* every directory outside the candidate containers can be read
RECURSIVE ReadableOutside(_)
ReadableOutside(node) ==
    \/ node.kind = "file"
    \/ /\ node.readable
       /\ \/ HasChild(node, YmlName)
          \/ \A i \in 1..Len(node.children) : ReadableOutside(node.children[i])

\* the paths of the valid containers that lie in no candidate container
RECURSIVE ValidContainers(_, _)
ValidContainers(path, node) ==
    IF node.kind = "file"
    THEN IF HasSuffix(ToLower(node.name), <<".zip">>)
            /\ discoverArchivedDatabase(path, node).found
         THEN {path} ELSE {}
    ELSE IF ~node.readable THEN {}
    ELSE IF HasChild(node, YmlName)
    THEN IF discoverUnarchivedDatabase(path, node).found THEN {path} ELSE {}
    ELSE UNION {ValidContainers(Join(path, node.children[i].name), node.children[i]) :
                    i \in 1..Len(node.children)}

RootEnumerable ==
    /\ tree.kind = "dir" /\ tree.readable
    /\ \A i \in 1..Len(tree.children) : ReadableOutside(tree.children[i])

ExpectedLocal ==
    UNION {ValidContainers(Join(BaseDir, tree.children[i].name), tree.children[i]) :
               i \in 1..Len(tree.children)}

\* C4: when only candidate containers fail (malformed or unreadable
\* descriptor, corrupt archive, unreadable file or subdirectory inside the
\* container), ListMetadata succeeds and lists every other valid container.
C4_PartialFailureIsolation ==
    (discRes.done /\ kind = "local" /\ RootEnumerable) =>
        /\ ~discRes.err
        /\ \A path \in ExpectedLocal :
               \E e \in Entries : e.result_url = ResultURL(EndpointURL, Rel(BaseDir, path))

\* the k-th it.Next() of the listing fails before the iterator is done
ListingFails ==
    bucket.listErrAt \in 1..(Len(Listing(bucket, prefix)) + 1)

\* C5: when the namespace root cannot be enumerated (local root missing or
\* unreadable, remote listing fails) ListMetadata returns an error and no
\* catalog, not even the containers seen before the failure.
C5_EnumerationFailureIsFatal ==
    (discRes.done /\ (IF kind = "local" THEN tree.kind = "missing" \/ ~tree.readable
                      ELSE ListingFails)) =>
        discRes.err /\ discRes.isNil /\ discRes.catalog = <<>>

\* a remote listing that fails after a valid container was listed
C5_Witness ==
    /\ discRes.done /\ kind = "gcs" /\ discRes.err
    /\ bucket.listErrAt = 2
    /\ Listing(bucket, prefix) # <<>>
    /\ Listing(bucket, prefix)[1] = ObjYml(<<"p", "/", "db1">>, Parsed(SLP1, Go, CM1))

\* a local root that cannot be read although it holds a valid container
C5_WitnessLocal ==
    /\ discRes.done /\ kind = "local" /\ discRes.err
    /\ tree.kind = "dir" /\ ~tree.readable /\ tree.children # <<>>

\* C9: build_cid has 10 characters; with creationMetadata it is the first 10
\* hex characters of SHA-256("<cliVersion> <creationTime> <language> <sha>"),
\* without it the first 10 hex characters of the entry's content_hash.
C9_BuildCIDDerivation ==
    (discRes.done /\ ~discRes.err) =>
        \A e \in Entries :
            LET d == DescriptorOf(e)
            IN  /\ e.build_cid.len = 10
                /\ d.cm.present =>
                       e.build_cid = HexPrefix(Sha256Hex(
                           d.cm.cliVersion \o Space \o d.cm.creationTime \o Space
                           \o e.primary_language \o Space \o d.cm.sha), 10)
                /\ ~d.cm.present => e.build_cid = HexPrefix(e.content_hash, 10)

\* a catalog with an entry built from creationMetadata and one built without
C9_Witness ==
    /\ discRes.done /\ ~discRes.err
    /\ \E e \in Entries : DescriptorOf(e).cm.present
    /\ \E e \in Entries : ~DescriptorOf(e).cm.present

\* C10: content_hash is never empty; it is the SHA-256 of the archive's
\* bytes for an archived container and of the location string for an
\* unarchived one, whatever the container's payload is.
C10_ContentHash ==
    (discRes.done /\ ~discRes.err) =>
        \A e \in Entries :
            /\ e.content_hash.len = 64
            /\ kind = "local" =>
                   LET node == LocalNodeOf(e)
                   IN  IF node.kind = "file"
                       THEN e.content_hash = Sha256Hex(<<node.bytes>>)
                       ELSE e.content_hash = Sha256Hex(Join(BaseDir, RelOf(e)))
            /\ kind = "gcs" => e.content_hash = Sha256Hex(prefix \o RelOf(e))

\* a catalog with an archived and an unarchived entry, the latter with payload
C10_Witness ==
    /\ discRes.done /\ ~discRes.err /\ kind = "local"
    /\ \E e \in Entries : LocalNodeOf(e).kind = "file"
    /\ \E e \in Entries : LocalNodeOf(e).kind = "dir" /\ e.db_file_size > 2

C10_WitnessGCS ==
    /\ discRes.done /\ ~discRes.err /\ kind = "gcs" /\ prefix # <<>>
    /\ Len(discRes.catalog) = 2

\* C11: within one catalog no two entries have the same content_hash.
C11_ContentHashIsKey ==
    (discRes.done /\ ~discRes.err) =>
        \A i, j \in 1..Len(discRes.catalog) :
            i # j => discRes.catalog[i].content_hash # discRes.catalog[j].content_hash

-----------------------------------------------------------------------------
(* SpecFetch: a ListMetadata call followed by a GetFile call on the        *)
(* relative location of one of the catalog's entries, namespace unchanged  *)

\* the regular files of the tree, by path
RECURSIVE TreeFiles(_, _)
TreeFiles(path, node) ==
    IF node.kind = "file" THEN {path}
    ELSE IF node.kind = "dir"
    THEN UNION {TreeFiles(Join(path, node.children[i].name), node.children[i]) :
                    i \in 1..Len(node.children)}
    ELSE {}

\* Backend.GetFile (gcs)
gcsGetFileResult(bkt, pfx, name) ==
    IF \E i \in 1..Len(bkt.objects) : bkt.objects[i].name = pfx \o name
    THEN [NoPathRes EXCEPT !.op = "GetFile", !.err = "none",
                           !.statPath = pfx \o name, !.openPath = pfx \o name,
                           !.contentType = "application/octet-stream"]
    ELSE [NoPathRes EXCEPT !.op = "GetFile", !.err = "ErrNotFound",
                           !.statPath = pfx \o name]

GetFileOfEntryLocal ==
    /\ kind = "local" /\ discRes.done /\ ~discRes.err /\ pathRes.op = "none"
    /\ \E i \in 1..Len(discRes.catalog) :
           /\ filename' = RelOf(discRes.catalog[i])
           /\ pathRes' = GetFileResult(BaseDir, RelOf(discRes.catalog[i]),
                                       TreeFiles(BaseDir, tree))
    /\ UNCHANGED <<basePath, fsFiles, ownerVars, cidVars, httpVars, discVars, cacheVars>>

GetFileOfEntryGCS ==
    /\ kind = "gcs" /\ discRes.done /\ ~discRes.err /\ pathRes.op = "none"
    /\ \E i \in 1..Len(discRes.catalog) :
           /\ filename' = RelOf(discRes.catalog[i])
           /\ pathRes' = gcsGetFileResult(bucket, prefix, RelOf(discRes.catalog[i]))
    /\ UNCHANGED <<basePath, fsFiles, ownerVars, cidVars, httpVars, discVars, cacheVars>>

NextFetch ==
    \/ ListMetadataLocal
    \/ ListMetadataGCS
    \/ GetFileOfEntryLocal
    \/ GetFileOfEntryGCS

SpecFetch == InitDiscover /\ [][NextFetch]_vars

\* C12: GetFile on the relative location of a catalog entry succeeds and
\* opens that entry's database.
C12_EntryIsDownloadable ==
    pathRes.op = "GetFile" =>
        /\ pathRes.err = "none"
        /\ pathRes.openPath = IF kind = "local" THEN Join(BaseDir, filename)
                              ELSE prefix \o filename

\* the database paths of the well-formed descriptors whose key begins with p
DescriptorPathsUnder(p) ==
    { TrimSuffix(bucket.objects[i].name, Slash \o YmlName) :
          i \in { k \in 1..Len(bucket.objects) :
                      /\ HasPrefix(bucket.objects[k].name, p)
                      /\ HasSuffix(bucket.objects[k].name, Slash \o YmlName)
                      /\ bucket.objects[k].data.state = "ok" } }

\* C13: with a configured prefix (which ends in "/" after New) the remote
\* catalog holds one entry for each well-formed descriptor whose key begins
\* with the prefix, and nothing from any other key of the bucket.
C13_RemotePrefixScoping ==
    (kind = "gcs" /\ discRes.done /\ ~discRes.err /\ prefix # <<>>) =>
        /\ HasSuffix(prefix, Slash)
        /\ {e.content_hash : e \in Entries}
               = {Sha256Hex(d) : d \in DescriptorPathsUnder(prefix)}
        /\ Len(discRes.catalog) = Cardinality(DescriptorPathsUnder(prefix))

\* one candidate inside the prefix, one outside: exactly one entry
C13_Witness ==
    /\ kind = "gcs" /\ discRes.done /\ ~discRes.err
    /\ prefix = <<"p", "/">>
    /\ DescriptorPathsUnder(<<"p", "/">>) = {<<"p", "/", "db2">>}
    /\ DescriptorPathsUnder(<<"q", "/">>) = {<<"q", "/", "db3">>}
    /\ Len(discRes.catalog) = 1

\* the entry's container is an archive with no structured descriptor
EntryIsLegacy(e) ==
    /\ kind = "local"
    /\ LocalNodeOf(e).kind = "file"
    /\ \A i \in 1..Len(LocalNodeOf(e).zip.members) :
           ~HasSuffix(LocalNodeOf(e).zip.members[i].name, YmlName)

\* the creationMetadata block of the entry's structured descriptor
StructuredCM(e) ==
    IF kind = "gcs" THEN GcsDescriptorOf(e).cm
    ELSE IF LocalNodeOf(e).kind = "dir" THEN ChildNamed(LocalNodeOf(e), YmlName).data.cm
    ELSE SelectSeq(LocalNodeOf(e).zip.members,
                   LAMBDA m : HasSuffix(m.name, YmlName))[1].data.cm

\* the entry was built with creationMetadata: its build_cid is not the prefix
\* of its content_hash
BuiltWithCM(e) == e.build_cid # HexPrefix(e.content_hash, 10)

NoCMFields(e) ==
    e.tool_version = <<>> /\ e.git_commit_id = <<>> /\ e.ingestion_datetime_utc = <<>>

\* C14: an entry from a legacy descriptor has no creationMetadata; an entry
\* from a structured descriptor has it exactly when the descriptor holds the
\* block; without it tool_version, git_commit_id and ingestion_datetime_utc
\* are empty.
C14_CreationMetadataPresence ==
    (discRes.done /\ ~discRes.err) =>
        \A e \in Entries :
            /\ EntryIsLegacy(e) => ~BuiltWithCM(e)
            /\ ~EntryIsLegacy(e) => (BuiltWithCM(e) <=> StructuredCM(e).present)
            /\ ~BuiltWithCM(e) => NoCMFields(e)
            /\ BuiltWithCM(e) =>
                   /\ e.tool_version = StructuredCM(e).cliVersion
                   /\ e.git_commit_id = StructuredCM(e).sha
                   /\ e.ingestion_datetime_utc = StructuredCM(e).creationTime

\* a catalog with a legacy entry and a structured entry without the block
C14_Witness ==
    /\ discRes.done /\ ~discRes.err
    /\ \E e \in Entries : EntryIsLegacy(e) /\ NoCMFields(e)
    /\ \E e \in Entries : ~EntryIsLegacy(e) /\ ~StructuredCM(e).present /\ NoCMFields(e)

\* the entry's container is a directory of the local tree
EntryIsUnarchived(e) == kind = "local" /\ LocalNodeOf(e).kind = "dir"

\* C22: no catalog entry of the local backend has a location strictly inside
\* the location of an unarchived entry.
C22_ContainerBoundaries ==
    (kind = "local" /\ discRes.done /\ ~discRes.err) =>
        \A e1, e2 \in Entries :
            EntryIsUnarchived(e2) => ~HasPrefix(RelOf(e1), RelOf(e2) \o Slash)

\* d1 is an entry and holds an archive and a directory that would be
\* containers elsewhere
C22_Witness ==
    /\ kind = "local" /\ discRes.done /\ ~discRes.err
    /\ \E e \in Entries : RelOf(e) = <<"d1">>
    /\ NodeAt(tree, <<<<"d1">>, <<"n2", ".zip">>>>).kind = "file"
    /\ NodeAt(tree, <<<<"d1">>, <<"n1">>>>).kind = "dir"

\* C30: no entry of a local catalog is located at the namespace root, also
\* when the root directly holds codeql-database.yml: every entry lies
\* strictly below the root, and every container directly below the root is
\* reported.
C30_RootNeverEntry ==
    (kind = "local" /\ discRes.done /\ ~discRes.err) =>
        /\ \A e \in Entries :
               /\ RelOf(e) \notin {<<>>, Dot}
               /\ LocalNodeOf(e) # tree
        /\ \A i \in 1..Len(tree.children) :
               Visit(Join(BaseDir, tree.children[i].name), tree.children[i]).dbs # <<>> =>
                   \E e \in Entries : RelOf(e) = tree.children[i].name

\* the root holds codeql-database.yml and the catalog has an entry below it
C30_Witness ==
    /\ kind = "local" /\ discRes.done /\ ~discRes.err
    /\ HasChild(tree, YmlName)
    /\ \E e \in Entries : RelOf(e) = <<"d1">>

\* the bucket holds an object whose name ends in .zip under the prefix
ZipObjectListed ==
    \E i \in 1..Len(bucket.objects) :
        /\ HasPrefix(bucket.objects[i].name, prefix)
        /\ HasSuffix(bucket.objects[i].name, <<".zip">>)

\* C23: whatever the configured prefix, the remote catalog has exactly one
\* entry for each key prefix P whose object P/codeql-database.yml is listed
\* and parses, located at P below the prefix, and no other entry; no entry
\* comes from an object whose name ends in .zip.
C23_RemoteOnlyUnarchived ==
    (kind = "gcs" /\ discRes.done /\ ~discRes.err) =>
        /\ Len(discRes.catalog) = Cardinality(DescriptorPathsUnder(prefix))
        /\ {<<e.content_hash, e.result_url>> : e \in Entries}
               = {<<Sha256Hex(d), ResultURL(EndpointURL, TrimPrefix(d, prefix))>> :
                      d \in DescriptorPathsUnder(prefix)}
        /\ \A e \in Entries : ~HasSuffix(e.result_url, <<".zip">>)

\* an archive and two descriptors are listed: two entries
C23_Witness ==
    /\ kind = "gcs" /\ discRes.done /\ ~discRes.err
    /\ ZipObjectListed
    /\ Cardinality(DescriptorPathsUnder(prefix)) = 2
    /\ Len(discRes.catalog) = 2

\* C24: every catalog entry has the descriptor's primaryLanguage when that is
\* not empty, never an empty primary_language, and the tool_name
\* "codeql-<language>" exactly when the language is not "unknown".
C24_LanguageNeverEmpty ==
    (discRes.done /\ ~discRes.err) =>
        \A e \in Entries :
            /\ DescriptorOf(e).lang # <<>> => e.primary_language = DescriptorOf(e).lang
            /\ e.primary_language # <<>>
            /\ e.tool_name = IF e.primary_language # Unknown
                             THEN <<"codeql-">> \o e.primary_language
                             ELSE <<"codeql">>

CidChars == {" ", "x"}

InitCid ==
    /\ cidRes = <<>>
    /\ IdlePath /\ IdleOwner /\ IdleDisc /\ IdleCache /\ IdleHttp

\* one call of generateBuildCID in each backend, on the same arguments
GenerateBuildCID ==
    /\ Len(cidRes) < 2
    /\ \E c \in StrOver(CidChars, MaxCidLen), t \in StrOver(CidChars, MaxCidLen),
          l \in StrOver(CidChars, MaxCidLen), h \in StrOver(CidChars, MaxCidLen) :
           cidRes' = Append(cidRes, [in |-> <<c, t, l, h>>,
                                     local |-> generateBuildCID(c, t, l, h),
                                     gcs |-> gcsGenerateBuildCID(c, t, l, h)])
    /\ UNCHANGED <<pathVars, ownerVars, discVars, cacheVars, httpVars>>

NextCid == GenerateBuildCID

SpecCID == InitCid /\ [][NextCid]_vars

\* C8: two argument tuples that differ in at least one component get
\* different build identifiers, whatever the components hold.
C8_DistinctInputsDistinctCID ==
    Len(cidRes) = 2 =>
        (cidRes[1].in # cidRes[2].in =>
            /\ cidRes[1].local # cidRes[2].local
            /\ cidRes[1].gcs # cidRes[2].gcs)

-----------------------------------------------------------------------------
(* SpecCache: goroutines calling ListMetadata on one local backend while   *)
(* the cache is invalidated, the backend closed, the namespace changed and *)
(* time passes.  Backend.mu makes each critical section one atomic step;   *)
(* the steps of a call are its cache check (under RLock), the discovery    *)
(* (no lock held) and the cache update (under Lock).                       *)

DefaultCacheTTL == 5
MaxClock == 2
MaxCalls == 2

\* the calls each goroutine makes: the first one more than the others
CallsOf(p) == IF p = "g1" THEN MaxCalls ELSE MaxCalls - 1

Procs == {"g1", "g2"}
CfgTTLs == {0, 2}

\* local.New: a zero Config.CacheTTL becomes the default
newCacheTTL(cfg) == IF cfg = 0 THEN DefaultCacheTTL ELSE cfg

NilCatalog == [isNil |-> TRUE, catalog |-> <<>>]
ZeroTime == [zero |-> TRUE, at |-> 0]
TimeAt(t) == [zero |-> FALSE, at |-> t]

\* time.Since: the distance to the zero time.Time saturates
MaxDuration == DefaultCacheTTL + MaxClock + 1
Since(t) == IF t.zero THEN MaxDuration ELSE now - t.at

\* the namespaces: no container, one valid container, or a root that cannot
\* be read
CacheTrees ==
    { Dir(BaseDir, TRUE, b) : b \in Opt(SecondDirs) }
    \cup { Dir(BaseDir, FALSE, <<>>) }

\* sync.RWMutex with nobody holding it
Unlocked == [readers |-> {}, writer |-> Nil]

NoHist ==
    [anchorSet |-> FALSE, anchorAt |-> 0, anchorCatalog |-> <<>>,
     bound |-> [p \in Procs |-> FALSE],
     awaiting |-> FALSE, isNext |-> [p \in Procs |-> FALSE],
     staleScan |-> [p \in Procs |-> FALSE], cacheStale |-> FALSE,
     retStale |-> [p \in Procs |-> FALSE],
     closed |-> FALSE,
     expired |-> [p \in Procs |-> FALSE],
     shares |-> [p \in Procs |-> FALSE],
     before |-> [p \in Procs |-> [cached |-> NilCatalog, at |-> ZeroTime]],
     pending |-> <<>>,
     overtaken |-> [p \in Procs |-> FALSE]]

\* q made its scan before p did, both results waiting to be stored
Before(q, p, pending) ==
    \E i, j \in 1..Len(pending) : i < j /\ pending[i] = q /\ pending[j] = p

\* history: p's scan has given a result / p has stored its result
AfterScan(h, p) ==
    [h EXCEPT !.pending = Append(@, p), !.overtaken[p] = FALSE]

AfterStore(h, p) ==
    [h EXCEPT !.overtaken = [q \in Procs |-> q # p /\ (@[q] \/ Before(q, p, h.pending))],
              !.pending = SelectSeq(@, LAMBDA q : q # p)]

InitCache ==
    /\ kind = "local" /\ tree \in CacheTrees /\ bucket = NoBucket /\ prefix = <<>>
    /\ discRes = NoDiscRes
    /\ cachedMetadata = NilCatalog
    /\ cacheTime = ZeroTime
    /\ cacheTTL \in {newCacheTTL(c) : c \in CfgTTLs}
    /\ now = 0
    /\ pc = [p \in Procs |-> "idle"]
    /\ metadata = [p \in Procs |-> NoDiscRes]
    /\ ret = [p \in Procs |-> NoDiscRes]
    /\ calls = [p \in Procs |-> 0]
    /\ hist = NoHist
    /\ mu = Unlocked
    /\ IdlePath /\ IdleOwner /\ IdleCid /\ IdleHttp

\* a slip: a catalog is still served at the instant its TTL has run out
CacheValidInclusive == ~cachedMetadata.isNil /\ Since(cacheTime) <= cacheTTL

\* the cache test of ListMetadata
CacheValid == ~cachedMetadata.isNil /\ Since(cacheTime) < cacheTTL

\* ListMetadata, lines 91-98: the check under RLock; a hit returns a copy
CheckCache(p) ==
    /\ pc[p] = "idle" /\ calls[p] < CallsOf(p)
    /\ calls' = [calls EXCEPT ![p] = @ + 1]
    /\ pc' = [pc EXCEPT ![p] = IF CacheValid THEN "done" ELSE "discover"]
    /\ ret' = [ret EXCEPT ![p] = IF CacheValid
                                 THEN [done |-> TRUE, err |-> FALSE, isNil |-> FALSE,
                                       catalog |-> cachedMetadata.catalog]
                                 ELSE NoDiscRes]
    /\ hist' = [hist EXCEPT
                   !.bound[p] = hist.anchorSet /\ now < hist.anchorAt + cacheTTL,
                   !.awaiting = FALSE,
                   !.closed = FALSE,
                   !.expired[p] = ~cachedMetadata.isNil /\ ~CacheValid,
                   !.shares[p] = FALSE,
                   !.isNext[p] = hist.awaiting,
                   !.retStale[p] = CacheValid /\ hist.cacheStale]
    /\ UNCHANGED <<cachedMetadata, cacheTime, cacheTTL, mu, now, metadata>>
    /\ UNCHANGED <<discVars, pathVars, ownerVars, cidVars, httpVars>>

\* ListMetadata, lines 100-118: discovery and conversion, no lock held;
\* r is what the scan of the namespace gave
Discovered(p, r) ==
    /\ pc' = [pc EXCEPT ![p] = IF r.err THEN "done" ELSE "update"]
    /\ ret' = [ret EXCEPT ![p] = IF r.err THEN ScanFailed ELSE @]
    /\ metadata' = [metadata EXCEPT ![p] = IF r.err THEN @ ELSE r]

\* a slip: a caller that finds another caller's finished scan waiting to be
\* stored takes that result instead of scanning
DiscoverCoalesced(p) ==
    /\ pc[p] = "discover"
    /\ IF \E q \in Procs \ {p} : pc[q] = "update"
       THEN Discovered(p, metadata[CHOOSE q \in Procs \ {p} : pc[q] = "update"])
       ELSE Discovered(p, localScan(BaseDir, EndpointURL, tree))
    /\ hist' = IF pc'[p] = "update"
               THEN AfterScan([hist EXCEPT !.staleScan[p] = FALSE], p)
               ELSE [hist EXCEPT !.staleScan[p] = FALSE]
    /\ UNCHANGED <<cachedMetadata, cacheTime, cacheTTL, mu, now, calls>>
    /\ UNCHANGED <<discVars, pathVars, ownerVars, cidVars, httpVars>>

\* a slip: a scan that fails drops the cached catalog
DiscoverDroppingCache(p) ==
    /\ pc[p] = "discover"
    /\ Discovered(p, localScan(BaseDir, EndpointURL, tree))
    /\ cachedMetadata' = IF localScan(BaseDir, EndpointURL, tree).err
                         THEN NilCatalog ELSE cachedMetadata
    /\ hist' = IF pc'[p] = "update"
               THEN AfterScan([hist EXCEPT !.staleScan[p] = FALSE], p)
               ELSE [hist EXCEPT !.staleScan[p] = FALSE]
    /\ UNCHANGED <<cacheTime, cacheTTL, mu, now, calls>>
    /\ UNCHANGED <<discVars, pathVars, ownerVars, cidVars, httpVars>>

Discover(p) ==
    /\ pc[p] = "discover"
    /\ Discovered(p, localScan(BaseDir, EndpointURL, tree))
    /\ hist' = IF pc'[p] = "update"
               THEN AfterScan([hist EXCEPT !.staleScan[p] = FALSE], p)
               ELSE [hist EXCEPT !.staleScan[p] = FALSE]
    /\ UNCHANGED <<cachedMetadata, cacheTime, cacheTTL, mu, now, calls>>
    /\ UNCHANGED <<discVars, pathVars, ownerVars, cidVars, httpVars>>

\* ListMetadata, lines 120-127: the cache update under Lock, and the return
UpdateCache(p) ==
    /\ pc[p] = "update"
    /\ cachedMetadata' = [isNil |-> metadata[p].isNil, catalog |-> metadata[p].catalog]
    /\ cacheTime' = TimeAt(now)
    /\ ret' = [ret EXCEPT ![p] = metadata[p]]
    /\ metadata' = [metadata EXCEPT ![p] = NoDiscRes]
    /\ pc' = [pc EXCEPT ![p] = "done"]
    /\ hist' = [AfterStore(hist, p) EXCEPT
                   !.anchorSet = TRUE,
                   !.anchorAt = IF hist.anchorSet THEN @ ELSE now,
                   !.anchorCatalog = IF hist.anchorSet THEN @ ELSE metadata[p].catalog,
                   !.cacheStale = hist.staleScan[p],
                   !.retStale[p] = hist.staleScan[p],
                   !.staleScan[p] = FALSE,
                   !.shares = [q \in Procs |-> q = p]]
    /\ UNCHANGED <<cacheTTL, mu, now, calls>>
    /\ UNCHANGED <<discVars, pathVars, ownerVars, cidVars, httpVars>>

\* the caller has the result; the goroutine may call again
Return(p) ==
    /\ pc[p] = "done" /\ calls[p] < CallsOf(p)
    /\ pc' = [pc EXCEPT ![p] = "idle"]
    /\ ret' = [ret EXCEPT ![p] = NoDiscRes]
    /\ hist' = [hist EXCEPT !.bound[p] = FALSE, !.isNext[p] = FALSE,
                            !.retStale[p] = FALSE, !.expired[p] = FALSE,
                            !.shares[p] = FALSE,
                            !.before[p] = [cached |-> NilCatalog, at |-> ZeroTime]]
    /\ UNCHANGED <<cachedMetadata, cacheTime, cacheTTL, mu, now, metadata, calls>>
    /\ UNCHANGED <<discVars, pathVars, ownerVars, cidVars, httpVars>>

\* Backend.InvalidateCache
InvalidateCache ==
    /\ cachedMetadata' = NilCatalog
    /\ cacheTime' = ZeroTime
    /\ hist' = [hist EXCEPT
                   !.anchorSet = FALSE, !.anchorAt = 0, !.anchorCatalog = <<>>,
                   !.bound = [p \in Procs |-> FALSE],
                   !.awaiting = TRUE,
                   !.isNext = [p \in Procs |-> FALSE],
                   !.staleScan = [p \in Procs |-> pc[p] = "update"],
                   !.cacheStale = FALSE,
                   !.shares = [p \in Procs |-> FALSE],
                   !.overtaken = [p \in Procs |-> FALSE]]
    /\ UNCHANGED <<cacheTTL, mu, now, pc, metadata, ret, calls>>
    /\ UNCHANGED <<discVars, pathVars, ownerVars, cidVars, httpVars>>

\* Backend.Close: the cache is dropped, cacheTime is left as it was
Close ==
    /\ cachedMetadata' = NilCatalog
    /\ hist' = [hist EXCEPT
                   !.anchorSet = FALSE, !.anchorAt = 0, !.anchorCatalog = <<>>,
                   !.bound = [p \in Procs |-> FALSE],
                   !.cacheStale = FALSE,
                   !.closed = TRUE,
                   !.shares = [p \in Procs |-> FALSE],
                   !.overtaken = [p \in Procs |-> FALSE]]
    /\ UNCHANGED <<cacheTime, cacheTTL, mu, now, pc, metadata, ret, calls>>
    /\ UNCHANGED <<discVars, pathVars, ownerVars, cidVars, httpVars>>

\* containers are added to or removed from the namespace
ChangeNamespace ==
    /\ tree' \in CacheTrees \ {tree}
    /\ UNCHANGED <<kind, bucket, prefix, discRes, cacheVars>>
    /\ UNCHANGED <<pathVars, ownerVars, cidVars, httpVars>>

Tick ==
    /\ now < MaxClock
    /\ now' = now + 1
    /\ UNCHANGED <<cachedMetadata, cacheTime, cacheTTL, mu, pc, metadata, ret, calls, hist>>
    /\ UNCHANGED <<discVars, pathVars, ownerVars, cidVars, httpVars>>

NextCache ==
    \/ \E p \in Procs : CheckCache(p)
    \/ \E p \in Procs : Discover(p)
    \/ \E p \in Procs : UpdateCache(p)
    \/ \E p \in Procs : Return(p)
    \/ InvalidateCache
    \/ Close
    \/ ChangeNamespace
    \/ Tick

SpecCache == InitCache /\ [][NextCache]_vars

\* C2: once a ListMetadata call has succeeded at time t, every further call
\* begun before t + TTL, with no InvalidateCache or Close in between, returns
\* the catalog of that first call, whatever the namespace has become.
C2_CacheRoundTrip ==
    \A p \in Procs :
        (pc[p] = "done" /\ hist.bound[p]) =>
            (~ret[p].err /\ ret[p].catalog = hist.anchorCatalog)

\* C3: the first ListMetadata call begun after InvalidateCache returned never
\* returns a catalog that was scanned before that invalidation, in any
\* interleaving with other ListMetadata calls.
C3_InvalidationForcesRescan ==
    \A p \in Procs :
        (pc[p] = "done" /\ hist.isNext[p] /\ ~ret[p].err) => ~hist.retStale[p]

\* C16: once Close has returned, and until a ListMetadata call is begun, the
\* backend holds no cached catalog, also when a ListMetadata call was
\* scanning while Close ran.
C16_CloseReleasesCache ==
    hist.closed => cachedMetadata.isNil

\* C19: while one ListMetadata call is between its scan and its store, no
\* other ListMetadata call reads the cache and nothing but that call's store
\* writes the cached catalog or its timestamp.
C19_MissExcludesOthers ==
    [][\A p \in Procs :
           pc[p] = "update" =>
               /\ \A q \in Procs \ {p} : pc[q] = "idle" => pc'[q] = "idle"
               /\ pc'[p] = "update" =>
                      (cachedMetadata' = cachedMetadata /\ cacheTime' = cacheTime)]_vars

\* the step takes p from its miss to the outcome r of a scan
MissStepGives(p, r) ==
    IF r.err THEN pc'[p] = "done" /\ ret'[p] = ScanFailed
    ELSE pc'[p] = "update" /\ metadata'[p] = r

\* C20: the step that ends a caller's miss gives that caller the result of a
\* scan of the namespace as it is at that step, whatever scans the other
\* callers have made or have in flight.
C20_MissesNotCoalesced ==
    [][\A p \in Procs :
           (pc[p] = "discover" /\ pc'[p] # "discover") =>
               MissStepGives(p, localScan(BaseDir, EndpointURL, tree))]_vars

\* two callers missed before either stored, and hold the results of two scans
C20_Witness ==
    /\ pc["g1"] = "update" /\ pc["g2"] = "update"
    /\ cachedMetadata.isNil
    /\ metadata["g1"] # metadata["g2"]

\* the steps of goroutine p's ListMetadata call
HitStep(p) == pc[p] = "idle" /\ pc'[p] = "done"
CheckStep(p) == pc[p] = "idle" /\ pc'[p] # "idle"
ScanStep(p) == pc[p] = "discover" /\ pc'[p] # "discover"
StoreStep(p) == pc[p] = "update" /\ pc'[p] = "done"

\* C27: a call never replaces the stored catalog of a scan that was made
\* after its own: the store of a scan that a later scan has overtaken
\* leaves the cached catalog as that later scan left it.
C27_CacheNeverGoesBack ==
    [][\A p \in Procs :
          (StoreStep(p) /\ hist.overtaken[p]) =>
              cachedMetadata'.catalog = cachedMetadata.catalog]_vars

\* the cached catalog was stored at least TTL ago
CacheExpired == ~cachedMetadata.isNil /\ ~cacheTime.zero /\ now >= cacheTime.at + cacheTTL

\* what C21 says of every call but the call that finds an expired catalog and
\* whose scan then ends
TTLHitsAndMisses(p) ==
    /\ HitStep(p) =>
           /\ ~cachedMetadata.isNil /\ ~cacheTime.zero
           /\ now < cacheTime.at + cacheTTL
           /\ ~ret'[p].err /\ ret'[p].catalog = cachedMetadata.catalog
    /\ (CheckStep(p) /\ CacheExpired) => pc'[p] = "discover"
    /\ (hist.expired[p] /\ StoreStep(p)) =>
           /\ cachedMetadata'.catalog = ret'[p].catalog
           /\ cacheTime' = TimeAt(now)

\* C21 as stated: a cached catalog is returned only before t + TTL; every
\* call that finds it expired scans and replaces the catalog and its
\* timestamp; a configured TTL of 0 is 5 minutes.
C21_AsStated ==
    /\ [](cacheTTL \in {IF c = 0 THEN 5 ELSE c : c \in CfgTTLs})
    /\ [][\A p \in Procs :
              /\ TTLHitsAndMisses(p)
              /\ (hist.expired[p] /\ ScanStep(p)) => pc'[p] = "update"]_vars

\* C21, amended: as above, but the call that finds the catalog expired
\* replaces it only when its scan succeeds; when the scan fails the call
\* returns the error and the cache keeps the expired catalog and timestamp.
C21_TTLExpiry ==
    /\ [](cacheTTL \in {IF c = 0 THEN 5 ELSE c : c \in CfgTTLs})
    /\ [][\A p \in Procs :
              /\ TTLHitsAndMisses(p)
              /\ (hist.expired[p] /\ ScanStep(p)) =>
                     \/ pc'[p] = "update" /\ ~metadata'[p].err
                     \/ /\ pc'[p] = "done" /\ ret'[p].err
                        /\ cachedMetadata' = cachedMetadata /\ cacheTime' = cacheTime]_vars

\* a call made when the catalog had expired has scanned and stored anew
C21_Witness ==
    \E p \in Procs :
        /\ pc[p] = "done" /\ hist.expired[p] /\ ~ret[p].err
        /\ cacheTime = TimeAt(now) /\ now >= cacheTTL
        /\ cachedMetadata.catalog = ret[p].catalog

-----------------------------------------------------------------------------
(* SpecAlias: the callers of SpecCache also write into the slices they were *)
(* returned.  hist.shares[p] says that the slice p was returned is the slice *)
(* the cache holds: ListMetadata stores and returns the same slice on a     *)
(* miss and returns a copy on a hit.                                        *)

Overwritten == <<"overwritten">>

\* the caller assigns to element 1 of a slice
Scribble(catalog) == [catalog EXCEPT ![1] = [@ EXCEPT !.projname = Overwritten]]

\* goroutine p overwrites an element of the slice its call returned; the
\* write lands in the backing array, whoever else holds it
Overwrite(p) ==
    /\ pc[p] = "done" /\ ~ret[p].err /\ ret[p].catalog # <<>>
    /\ ret[p].catalog[1].projname # Overwritten
    /\ ret' = [ret EXCEPT ![p].catalog = Scribble(@)]
    /\ cachedMetadata' = IF hist.shares[p]
                         THEN [cachedMetadata EXCEPT !.catalog = Scribble(@)]
                         ELSE cachedMetadata
    /\ UNCHANGED <<cacheTime, cacheTTL, mu, now, pc, metadata, calls, hist>>
    /\ UNCHANGED <<discVars, pathVars, ownerVars, cidVars, httpVars>>

NextAlias ==
    \/ \E p \in Procs : CheckCache(p)
    \/ \E p \in Procs : Discover(p)
    \/ \E p \in Procs : UpdateCache(p)
    \/ \E p \in Procs : Return(p)
    \/ \E p \in Procs : Overwrite(p)
    \/ Tick

SpecAlias == InitCache /\ [][NextAlias]_vars

\* C25: what a caller writes into a returned slice never reaches the cached
\* catalog, so no later ListMetadata call returns it.
C25_ReturnedCatalogNotAliased ==
    \A i \in 1..Len(cachedMetadata.catalog) :
        cachedMetadata.catalog[i].projname # Overwritten

-----------------------------------------------------------------------------
(* SpecLock: ListMetadata with Backend.mu spelled out.  Taking the lock,    *)
(* the reads and writes made under it, and releasing it are steps of their  *)
(* own; the scan and the goroutines are those of SpecCache.                 *)

\* the calls each goroutine makes in SpecLock
MaxLockCalls == 1

Holds(p) == p \in mu.readers \/ mu.writer = p

\* b.mu.RLock(), line 91: waits while a writer holds the lock
RLock(p) ==
    /\ pc[p] = "idle" /\ calls[p] < MaxLockCalls
    /\ mu.writer = Nil
    /\ mu' = [mu EXCEPT !.readers = @ \cup {p}]
    /\ calls' = [calls EXCEPT ![p] = @ + 1]
    /\ pc' = [pc EXCEPT ![p] = "rlocked"]
    /\ hist' = [hist EXCEPT !.before[p] = [cached |-> cachedMetadata, at |-> cacheTime]]
    /\ UNCHANGED <<cachedMetadata, cacheTime, cacheTTL, now, metadata, ret>>
    /\ UNCHANGED <<discVars, pathVars, ownerVars, cidVars, httpVars>>

\* lines 92-94: the cache test and, on a hit, the copy
ReadCache(p) ==
    /\ pc[p] = "rlocked"
    /\ pc' = [pc EXCEPT ![p] = IF CacheValid THEN "hit" ELSE "miss"]
    /\ ret' = [ret EXCEPT ![p] = IF CacheValid
                                 THEN [done |-> TRUE, err |-> FALSE, isNil |-> FALSE,
                                       catalog |-> cachedMetadata.catalog]
                                 ELSE NoDiscRes]
    /\ UNCHANGED <<cachedMetadata, cacheTime, cacheTTL, mu, now, metadata, calls, hist>>
    /\ UNCHANGED <<discVars, pathVars, ownerVars, cidVars, httpVars>>

\* b.mu.RUnlock(), line 95 on a hit, line 98 on a miss
RUnlock(p) ==
    /\ pc[p] \in {"hit", "miss"}
    /\ mu' = [mu EXCEPT !.readers = @ \ {p}]
    /\ pc' = [pc EXCEPT ![p] = IF pc[p] = "hit" THEN "done" ELSE "discover"]
    /\ UNCHANGED <<cachedMetadata, cacheTime, cacheTTL, now, metadata, ret, calls, hist>>
    /\ UNCHANGED <<discVars, pathVars, ownerVars, cidVars, httpVars>>

\* b.mu.Lock(), line 120: waits while anybody holds the lock
Lock(p) ==
    /\ pc[p] = "update"
    /\ mu = Unlocked
    /\ mu' = [mu EXCEPT !.writer = p]
    /\ pc' = [pc EXCEPT ![p] = "wlocked"]
    /\ UNCHANGED <<cachedMetadata, cacheTime, cacheTTL, now, metadata, ret, calls, hist>>
    /\ UNCHANGED <<discVars, pathVars, ownerVars, cidVars, httpVars>>

\* lines 121-123: the store
Store(p) ==
    /\ pc[p] = "wlocked"
    /\ cachedMetadata' = [isNil |-> metadata[p].isNil, catalog |-> metadata[p].catalog]
    /\ cacheTime' = TimeAt(now)
    /\ pc' = [pc EXCEPT ![p] = "stored"]
    /\ hist' = AfterStore(hist, p)
    /\ UNCHANGED <<cacheTTL, mu, now, metadata, ret, calls>>
    /\ UNCHANGED <<discVars, pathVars, ownerVars, cidVars, httpVars>>

\* b.mu.Unlock() and the return, lines 124-129
Unlock(p) ==
    /\ pc[p] = "stored"
    /\ mu' = [mu EXCEPT !.writer = Nil]
    /\ ret' = [ret EXCEPT ![p] = metadata[p]]
    /\ metadata' = [metadata EXCEPT ![p] = NoDiscRes]
    /\ pc' = [pc EXCEPT ![p] = "done"]
    /\ UNCHANGED <<cachedMetadata, cacheTime, cacheTTL, now, calls, hist>>
    /\ UNCHANGED <<discVars, pathVars, ownerVars, cidVars, httpVars>>

\* InvalidateCache and Close take the lock for their whole body
NextLock ==
    \/ \E p \in Procs : RLock(p)
    \/ \E p \in Procs : ReadCache(p)
    \/ \E p \in Procs : RUnlock(p)
    \/ \E p \in Procs : Discover(p)
    \/ \E p \in Procs : Lock(p)
    \/ \E p \in Procs : Store(p)
    \/ \E p \in Procs : Unlock(p)
    \/ \E p \in Procs : Return(p)
    \/ (mu = Unlocked /\ InvalidateCache)
    \/ (mu = Unlocked /\ Close)
    \/ ChangeNamespace
    \/ Tick

SpecLock == InitCache /\ [][NextLock]_vars

\* p's call returns the error of its scan in this step
FailStep(p) == pc[p] = "discover" /\ pc'[p] = "done" /\ ret'[p].err

-----------------------------------------------------------------------------
(* SpecServer: one GET request routed by the mux to handleServeFile or to  *)
(* handleMetadata, against a local backend, a GCS backend or the scripted  *)
(* backend of the server tests.                                            *)

ServeFilePattern == "GET /db/{filepath...}"
IndexPattern == "GET /index"
LatestResultsPattern == "GET /api/v1/latest_results/codeql-all"

\* registerRoutes: the handler of a pattern
HandlerOf(pattern) ==
    IF pattern = ServeFilePattern THEN "handleServeFile"
    ELSE IF pattern \in {IndexPattern, LatestResultsPattern} THEN "handleMetadata"
    ELSE "none"

\* strconv.FormatInt(n, 10) for n >= 0
Digits == <<"0", "1", "2", "3", "4", "5", "6", "7", "8", "9">>

RECURSIVE FormatInt(_)
FormatInt(n) ==
    IF n < 10 THEN <<Digits[n + 1]>>
    ELSE FormatInt(n \div 10) \o <<Digits[(n % 10) + 1]>>

\* what os.Stat and os.Open give for a regular file of the tree
LocalFileInfo(g) ==
    IF g.err # "none" THEN g
    ELSE LET node == NodeAt(tree, Split(Rel(BaseDir, g.openPath), "/"))
         IN  [g EXCEPT !.size = node.size,
                       !.reader = [bytes |-> node.bytes, of |-> g.openPath]]

\* the attributes and the reader of an object: every object of the model
\* holds ObjectSize bytes
ObjectSize == 12

GcsObjectInfo(g) ==
    IF g.err # "none" THEN g
    ELSE [g EXCEPT !.size = ObjectSize,
                   !.reader = [bytes |-> "object", of |-> g.openPath]]

\* mockBackend.GetFile
mockGetFile(m) ==
    IF m.fileError # Nil
    THEN [NoPathRes EXCEPT !.op = "GetFile", !.err = m.fileError]
    ELSE [NoPathRes EXCEPT !.op = "GetFile", !.err = "none",
                           !.contentType = m.fileType, !.size = m.fileSize,
                           !.reader = [bytes |-> m.fileContent, of |-> "mock"]]

\* s.storage.GetFile
storageGetFile(name) ==
    IF kind = "local"
    THEN LocalFileInfo(GetFileResult(BaseDir, name, TreeFiles(BaseDir, tree)))
    ELSE IF kind = "gcs"
    THEN GcsObjectInfo(gcsGetFileResult(bucket, prefix, name))
    ELSE mockGetFile(mock)

\* s.storage.MetadataExists: the local and the GCS backend always say yes
storageMetadataExists ==
    IF kind = "mock"
    THEN [exists |-> ~mock.existsError /\ mock.metadataExists, err |-> mock.existsError]
    ELSE [exists |-> TRUE, err |-> FALSE]

\* mockBackend.ListMetadata
mockListMetadata(m) ==
    IF m.metadataError THEN ScanFailed ELSE Scanned(m.metadata)

\* s.storage.ListMetadata on a backend with no valid cache
storageListMetadata ==
    IF kind = "local" THEN localScan(BaseDir, EndpointURL, tree)
    ELSE IF kind = "gcs" THEN gcsScan(bucket, prefix, EndpointURL)
    ELSE mockListMetadata(mock)

\* errors.As(err, &notFound): an *storage.ErrNotFound anywhere in the chain
errorsAsNotFound(err) == err \in {"ErrNotFound", "wrapped ErrNotFound"}

\* http.Error
httpError(handler, msg, code) ==
    [handler |-> handler, status |-> code,
     contentType |-> "text/plain; charset=utf-8", contentLength |-> Nil,
     body |-> <<msg, "\n">>]

\* a slip: a refused path is answered as forbidden
serveFileResponseForbidden(requestedPath, g) ==
    IF requestedPath = <<>>
    THEN httpError("handleServeFile", "file path required", 400)
    ELSE IF g.err = "access denied"
    THEN httpError("handleServeFile", "forbidden", 403)
    ELSE IF g.err # "none"
    THEN IF errorsAsNotFound(g.err)
         THEN httpError("handleServeFile", "not found", 404)
         ELSE httpError("handleServeFile", "internal server error", 500)
    ELSE [handler |-> "handleServeFile", status |-> 200,
          contentType |-> g.contentType, contentLength |-> FormatInt(g.size),
          body |-> <<g.reader.bytes>>]

\* Server.handleServeFile: the response, g being what GetFile returned
serveFileResponse(requestedPath, g) ==
    IF requestedPath = <<>>
    THEN httpError("handleServeFile", "file path required", 400)
    ELSE IF g.err # "none"
    THEN IF errorsAsNotFound(g.err)
         THEN httpError("handleServeFile", "not found", 404)
         ELSE httpError("handleServeFile", "internal server error", 500)
    ELSE [handler |-> "handleServeFile", status |-> 200,
          contentType |-> g.contentType, contentLength |-> FormatInt(g.size),
          body |-> <<g.reader.bytes>>]

\* json.Marshal of an api.DatabaseMetadata: one line, never an error
jsonMarshal(m) == <<[json |-> m]>>

\* a slip: every line is ended by a newline
metadataResponseTrailingNewline(exists, list) ==
    IF exists.err
    THEN httpError("handleMetadata", "internal server error", 500)
    ELSE IF ~exists.exists
    THEN httpError("handleMetadata", "metadata.sql not found", 404)
    ELSE IF list.err
    THEN httpError("handleMetadata", "database error", 500)
    ELSE [handler |-> "handleMetadata", status |-> 200,
          contentType |-> "application/x-ndjson", contentLength |-> Nil,
          body |-> JoinWith([i \in 1..Len(list.catalog) |->
                                 jsonMarshal(list.catalog[i]) \o <<"\n">>], "")]

\* Server.handleMetadata: the response, exists and list being what
\* MetadataExists and ListMetadata returned
metadataResponse(exists, list) ==
    IF exists.err
    THEN httpError("handleMetadata", "internal server error", 500)
    ELSE IF ~exists.exists
    THEN httpError("handleMetadata", "metadata.sql not found", 404)
    ELSE IF list.err
    THEN httpError("handleMetadata", "database error", 500)
    ELSE [handler |-> "handleMetadata", status |-> 200,
          contentType |-> "application/x-ndjson", contentLength |-> Nil,
          body |-> JoinWith([i \in 1..Len(list.catalog) |->
                                 jsonMarshal(list.catalog[i])], "\n")]

\* the path values of the requests
ServeNames ==
    { <<>>, <<"z1", ".zip">>, <<"d2">>, <<"nope">>, <<".", ".", "/", "x">>,
      <<"a", ".zip">>, <<"p", "/", "a", ".zip">> }

Requests ==
    { [pattern |-> ServeFilePattern, filepath |-> n] : n \in ServeNames }
    \cup { [pattern |-> p, filepath |-> <<>>] : p \in {IndexPattern, LatestResultsPattern} }

\* the catalogs the scripted backend is given
MockCatalogs ==
    { <<>>,
      localScan(BaseDir, EndpointURL,
                Dir(BaseDir, TRUE,
                    <<Dir(<<"d2">>, TRUE, <<YmlFile(Parsed(SLP1, Go, CM1)),
                                           Dir(<<"db-", "go">>, TRUE, <<>>)>>),
                      File(<<"z1", ".zip">>, 3, "B1", NoData,
                           Zip(<<MYml(Parsed(SLP1, Go, CM1)), MLang>>))>>)).catalog }

MockBackends ==
    { [NoMock EXCEPT !.existsError = x[1], !.metadataExists = x[2],
                     !.metadataError = x[3], !.metadata = c] :
          x \in {<<TRUE, FALSE, FALSE>>, <<FALSE, FALSE, FALSE>>,
                 <<FALSE, TRUE, TRUE>>, <<FALSE, TRUE, FALSE>>},
          c \in MockCatalogs }
    \cup { [NoMock EXCEPT !.fileError = e] :
               e \in {"ErrNotFound", "wrapped ErrNotFound", "mockError"} }
    \cup { [NoMock EXCEPT !.fileContent = c, !.fileSize = Len(c), !.fileType = t] :
               c \in {<<>>, <<"f", "i", "l", "e", " ", "c", "o", "n", "t", "e", "n", "t">>},
               t \in {"text/plain", "application/octet-stream"} }

\* the namespaces file requests are served from: their files are what matters
FileTrees == { Dir(BaseDir, TRUE, b \o z) : b \in Opt(SecondDirs), z \in Opt(TopZips) }
FileBuckets == { b \in Buckets : b.listErrAt = 0 }

InitServer ==
    /\ req \in Requests
    /\ \/ /\ kind = "local" /\ bucket = NoBucket /\ prefix = <<>> /\ mock = NoMock
          /\ tree \in IF HandlerOf(req.pattern) = "handleServeFile"
                      THEN FileTrees ELSE Trees
       \/ /\ kind = "gcs" /\ tree = NoTree /\ mock = NoMock
          /\ bucket \in IF HandlerOf(req.pattern) = "handleServeFile"
                        THEN FileBuckets ELSE Buckets
          /\ prefix \in {gcsNewPrefix(c) : c \in CfgPrefixes}
       \/ /\ kind = "mock" /\ tree = NoTree /\ bucket = NoBucket /\ prefix = <<>>
          /\ mock \in MockBackends
    /\ resp = NoResp
    /\ proc = Nil
    /\ discRes = NoDiscRes
    /\ IdlePath /\ IdleOwner /\ IdleCid /\ IdleCache

\* handleServeFile with what GetFile returned; GetFile is not called for an
\* empty path
ServeFile(g) ==
    /\ pathRes' = g
    /\ resp' = serveFileResponse(req.filepath, g)

HandleServeFile ==
    /\ HandlerOf(req.pattern) = "handleServeFile" /\ resp.handler = "none"
    /\ ServeFile(IF req.filepath = <<>> THEN NoPathRes ELSE storageGetFile(req.filepath))
    /\ filename' = req.filepath
    /\ UNCHANGED <<basePath, fsFiles, mock, req, proc>>
    /\ UNCHANGED <<ownerVars, cidVars, discVars, cacheVars>>

\* handleMetadata with what MetadataExists and ListMetadata returned;
\* ListMetadata is called only when the metadata exists
ServeMetadata(exists, list) ==
    /\ discRes' = list
    /\ resp' = metadataResponse(exists, list)

HandleMetadata ==
    /\ HandlerOf(req.pattern) = "handleMetadata" /\ resp.handler = "none"
    /\ ServeMetadata(storageMetadataExists,
                     IF storageMetadataExists.exists /\ ~storageMetadataExists.err
                     THEN storageListMetadata ELSE NoDiscRes)
    /\ UNCHANGED <<kind, tree, bucket, prefix, mock, req, proc>>
    /\ UNCHANGED <<pathVars, ownerVars, cidVars, cacheVars>>

NextServer == HandleServeFile \/ HandleMetadata

SpecServer == InitServer /\ [][NextServer]_vars

\* the number a decimal string denotes
RECURSIVE ParseDecimal(_)
ParseDecimal(ds) ==
    IF ds = <<>> THEN 0
    ELSE 10 * ParseDecimal(SubSeq(ds, 1, Len(ds) - 1))
         + (CHOOSE d \in 0..9 : Digits[d + 1] = ds[Len(ds)])

C18_MetadataOutcomes ==
    resp.handler = "handleMetadata" =>
        /\ storageMetadataExists.err => resp.status = 500
        /\ (~storageMetadataExists.err /\ ~storageMetadataExists.exists) =>
               resp.status = 404
        /\ (~storageMetadataExists.err /\ storageMetadataExists.exists) =>
               /\ discRes.done
               /\ discRes.err => resp.status = 500
               /\ ~discRes.err =>
                      /\ resp.status = 200
                      /\ resp.contentType = "application/x-ndjson"
                      /\ Len(resp.body) =
                             IF discRes.catalog = <<>> THEN 0
                             ELSE 2 * Len(discRes.catalog) - 1
                      /\ \A i \in 1..Len(discRes.catalog) :
                             resp.body[2 * i - 1] = [json |-> discRes.catalog[i]]
                      /\ \A i \in 1..(Len(discRes.catalog) - 1) :
                             resp.body[2 * i] = "\n"

\* the second route answers with a catalog of two entries
C18_Witness ==
    /\ req.pattern = LatestResultsPattern /\ kind = "local"
    /\ resp.handler = "handleMetadata" /\ resp.status = 200
    /\ Len(discRes.catalog) = 2 /\ Len(resp.body) = 3

-----------------------------------------------------------------------------
(* SpecShutdown: the hepc-server process from the moment main is inside     *)
(* srv.ListenAndServe.  http.Server is the standard library's: Shutdown     *)
(* closes the listeners, makes ListenAndServe return ErrServerClosed at     *)
(* once, and itself returns when no connection is active any more.          *)

Handlers == {"h1", "h2", "h3"}
Signals == {"SIGINT", "SIGTERM"}

\* h1 and h3 serve GET /db/{filepath...}, h2 serves a metadata route
ServesFile(h) == h \in {"h1", "h3"}

InFlight(st) == st \in {"accepted", "called", "streamed"}

InitShutdown ==
    /\ proc = [main |-> "serving", signal |-> Nil, cancelled |-> FALSE,
               shutdown |-> "none", closed |-> FALSE,
               handler |-> [h \in Handlers |-> "none"],
               closedUnder |-> {}, usedClosed |-> {}]
    /\ mock = NoMock /\ req = NoReq /\ resp = NoResp
    /\ IdlePath /\ IdleOwner /\ IdleCid /\ IdleDisc /\ IdleCache

OnlyProc ==
    /\ UNCHANGED <<mock, req, resp>>
    /\ UNCHANGED <<pathVars, ownerVars, cidVars, discVars, cacheVars>>

Running == proc.main # "exited"

\* the listener accepts a connection and the mux routes its request
Accept(h) ==
    /\ Running /\ proc.shutdown = "none"
    /\ proc.handler[h] = "none"
    /\ proc' = [proc EXCEPT !.handler[h] = "accepted"]
    /\ OnlyProc

\* handleServeFile calls s.storage.GetFile, handleMetadata calls
\* s.storage.MetadataExists and s.storage.ListMetadata
CallBackend(h) ==
    /\ Running /\ proc.handler[h] = "accepted"
    /\ proc' = [proc EXCEPT !.handler[h] = "called",
                            !.usedClosed = IF proc.closed THEN @ \cup {h} ELSE @]
    /\ OnlyProc

\* handleServeFile: io.Copy from the reader GetFile returned
Stream(h) ==
    /\ Running /\ ServesFile(h) /\ proc.handler[h] = "called"
    /\ proc' = [proc EXCEPT !.handler[h] = "streamed",
                            !.usedClosed = IF proc.closed THEN @ \cup {h} ELSE @]
    /\ OnlyProc

\* the handler returns
Finish(h) ==
    /\ Running
    /\ proc.handler[h] = IF ServesFile(h) THEN "streamed" ELSE "called"
    /\ proc' = [proc EXCEPT !.handler[h] = "returned"]
    /\ OnlyProc

\* main.go, lines 234-241: the signal goroutine receives from sigChan and
\* cancels the context
Signal(sig) ==
    /\ Running /\ proc.signal = Nil
    /\ proc' = [proc EXCEPT !.signal = sig, !.cancelled = TRUE]
    /\ OnlyProc

\* server.go, lines 81-87: on ctx.Done the goroutine calls srv.Shutdown
Shutdown ==
    /\ Running /\ proc.cancelled /\ proc.shutdown = "none"
    /\ proc' = [proc EXCEPT !.shutdown = "called"]
    /\ OnlyProc

\* srv.Shutdown returns once every connection is idle
ShutdownReturns ==
    /\ Running /\ proc.shutdown = "called"
    /\ \A h \in Handlers : ~InFlight(proc.handler[h])
    /\ proc' = [proc EXCEPT !.shutdown = "returned"]
    /\ OnlyProc

\* server.go, line 93, main.go, lines 244-254: srv.ListenAndServe returns
\* http.ErrServerClosed as soon as Shutdown has been called, and main returns
ListenAndServeReturns ==
    /\ proc.main = "serving" /\ proc.shutdown # "none"
    /\ proc' = [proc EXCEPT !.main = "returned"]
    /\ OnlyProc

\* main.go, lines 245-251: srv.ListenAndServe fails to listen
ListenFails ==
    /\ proc.main = "serving" /\ proc.shutdown = "none"
    /\ \A h \in Handlers : proc.handler[h] = "none"
    /\ proc' = [proc EXCEPT !.main = "returned", !.cancelled = TRUE]
    /\ OnlyProc

\* main.go, lines 215-219 and 231: the deferred cancel, then the deferred
\* store.Close
DeferredClose ==
    /\ proc.main = "returned"
    /\ proc' = [proc EXCEPT !.main = "closed", !.cancelled = TRUE, !.closed = TRUE,
                            !.closedUnder = {h \in Handlers : InFlight(proc.handler[h])}]
    /\ OnlyProc

\* main has returned: the process ends with whatever its goroutines were doing
Exit ==
    /\ proc.main = "closed"
    /\ proc' = [proc EXCEPT !.main = "exited"]
    /\ OnlyProc

NextShutdown ==
    \/ \E h \in Handlers : Accept(h)
    \/ \E h \in Handlers : CallBackend(h)
    \/ \E h \in Handlers : Stream(h)
    \/ \E h \in Handlers : Finish(h)
    \/ \E sig \in Signals : Signal(sig)
    \/ Shutdown
    \/ ShutdownReturns
    \/ ListenAndServeReturns
    \/ ListenFails
    \/ DeferredClose
    \/ Exit

SpecShutdown == InitShutdown /\ [][NextShutdown]_vars

\* C28: after a signal, store.Close is called only when no request handler
\* is in flight, and no handler calls or streams from the backend once it
\* has been closed.
C28_CloseAfterHandlers ==
    proc.signal # Nil => (proc.closedUnder = {} /\ proc.usedClosed = {})

=============================================================================
